---- MODULE Spec2Model ----
(***************************************************************************)
(* A model of the synthetic sections of ELF/SyntheticSections.cpp: the     *)
(* state each section keeps, one action per member function, and the       *)
(* properties of the sections stated over that state.  Each family of      *)
(* sections has its own specification (SpecGot, SpecMipsGot, ...), in      *)
(* which the variables of the other families stay at their initial value.  *)
(***************************************************************************)
EXTENDS Integers, Sequences, FiniteSets, TLC

VARIABLES
  Config,          \* Config-> fields the sections read (Wordsize, Pic, ...)
  \* GotSection (non-MIPS .got) and the per-symbol indices it assigns
  NumEntries,      \* GotSection::NumEntries
  TlsIndexOff,     \* GotSection::TlsIndexOff, NoIndex when not reserved
  GotSize,         \* GotSection::Size
  GotIndex,        \* SymbolBody::GotIndex, per symbol
  GlobalDynIndex,  \* SymbolBody::GlobalDynIndex, per symbol
  gotState,        \* history: "CREATED", "FINALIZED" or "WRITTEN"
  gotLog,          \* history: the registrations that reserved slots, in order
  tlsCall,         \* history: the calls of addDynTlsEntry and addTlsIndex so
                   \* far (n, and the symbols called with, 0 for addTlsIndex)
                   \* and the last one with the value it returned
  \* MipsGotSection (MIPS .got), the symbols and files it looks at, .rel.dyn
  Gots,            \* MipsGotSection::Gots, a sequence of FileGot
  MipsGotIndex,    \* InputFile::MipsGotIndex, per file (0-based, or NoIndex)
  Preemptible,     \* the symbols for which SymbolBody::isPreemptible() holds
  MipsGotSize,     \* MipsGotSection::Size
  mipsState,       \* history: "CREATED", "BUILT", "FINALIZED" or "WRITTEN"
  MipsScanEntries, \* the entries the relocation scan of the link registers
  MipsSymVA,       \* SymbolBody::getVA() of the symbols the MIPS GOT refers to
  OutSecAddr,      \* OutputSection::Addr of the output sections
  MipsBuf,         \* the slots of the MIPS GOT: zero as handed to writeTo
  Relocs,          \* RelocationSection::Relocs of In<ELFT>::RelaDyn
  NumRelativeRelocs, \* RelocationSection::NumRelativeRelocs of In<ELFT>::RelaDyn
  FreeBSDMipsRelocationsHack, \* InputSectionBase::FreeBSDMipsRelocationsHack
  RelaSort,        \* RelocationSection::Sort of In<ELFT>::RelaDyn
  RelaBuf,         \* the table RelocationSection::writeTo wrote
  relaState,       \* history: "CREATED" or "WRITTEN"
  \* Symbol tables, their string tables and the two hash tables
  SymKind,         \* per symbol: "local", "hidden", "global" or "undefined"
  DynStrTab,       \* InX::DynStrTab: [Size, Strings, StringMap]
  StrTab,          \* InX::StrTab: [Size, Strings, StringMap]
  DynSymTab,       \* InX::DynSymTab: [Symbols, Info]
  SymTab,          \* InX::SymTab: [Symbols, Info]
  DynsymIndex,     \* SymbolBody::DynsymIndex, per symbol
  GnuHashTab,      \* InX::GnuHashTab: [Symbols, NBuckets, MaskWords, Size]
  HashTab,         \* In<ELFT>::HashTab: [Size]
  GnuHashBuf,      \* the bytes GnuHashTableSection::writeTo wrote, by field
  HashBuf,         \* the words HashTableSection::writeTo wrote, by field
  symtabLog,       \* history: the symbols added to .symtab, in call order
  symState,        \* history: how often each section was finalized, written
  \* EhFrameSection (.eh_frame) and the FDE list of EhFrameHeader
  EhSections,      \* EhFrameSection::Sections, the input sections added
  Cies,            \* EhFrameSection::Cies: [Piece, FdePieces], CieMap's records
  NumFdes,         \* EhFrameSection::NumFdes
  OutputOff,       \* EhSectionPiece::OutputOff, per piece
  EhSize,          \* EhFrameSection::Size
  EhBuf,           \* the records EhFrameSection::writeTo wrote, by offset
  Fdes,            \* EhFrameHeader::Fdes
  ehState,         \* "CREATED", "FINALIZED", "WRITTEN" or "FATAL"
  EhHdrBuf,        \* what EhFrameHeader::writeTo wrote, by field
  fdeLog,          \* history: the addFde calls, in order
  ehHdrState,       \* history: "CREATED" or "WRITTEN"
  \* DynamicSection (.dynamic)
  DynInputs,       \* what .dynamic reads of Config and of the other sections
  DynEntries,      \* DynamicSection::Entries
  DynSize,         \* DynamicSection::Size
  DynBuf,          \* the Elf_Dyn array DynamicSection::writeTo wrote
  dynState,         \* history: "CREATED", "FINALIZED" or "WRITTEN"
  RelocsMap,       \* CheriCapRelocsSection::RelocsMap, in insertion order
  CapErrors,       \* the error() calls of CheriCapRelocsSection, in order
  CapWarnings,     \* its warn() calls, in order
  CapAdded,        \* history: the sections addSection was called with
  CapProcessed,    \* history: the sections processSection was called with
  NDEBUG,          \* the build: TRUE when assert() is compiled out
  NeedsCopy,       \* SymbolBody::NeedsCopy of the symbols of CapSymbols
  CapBuf,          \* the records writeTo has put into Buf, in order
  capState,         \* "CREATED", or "ABORTED" after a failed assert()
  Target,          \* Target-> fields the PLT and .got.plt sections read
  PltHeaderSize,   \* PltSection::HeaderSize of In<ELFT>::Plt
  PltEntries,      \* PltSection::Entries of In<ELFT>::Plt: <<symbol, RelOff>>
  IpltEntries,     \* PltSection::Entries of In<ELFT>::Iplt
  PltIndex,        \* SymbolBody::PltIndex per symbol (NoIndex: not set)
  IsInIplt,        \* SymbolBody::IsInIplt per symbol
  RelaPlt,         \* In<ELFT>::RelaPlt: Relocs, NumRelativeRelocs, Hack
  RelaIplt,        \* In<ELFT>::RelaIplt
  pltLog,          \* history: per addEntry, the section, symbol and relocations
  ImageSize,       \* the size of the output image handed to writeBuildId
  HashSize,        \* BuildIdSection::HashSize
  NoteBuf,         \* the note header BuildIdSection::writeTo wrote
  BuildIdHashBuf,  \* what BuildIdSection::HashBuf points at holds
  Chunks,          \* computeHash: the pieces split returned
  Hashes,          \* computeHash: the buffer of per-chunk hashes, by slot
  HashWrites,      \* history: the writes of the chunk tasks into Hashes in
                   \* the order the tasks completed (task, first byte, bytes)
  BuildIdErrors,   \* the error() calls of writeBuildId
  buildIdState,    \* "CREATED", "WRITTEN", "HASHING", "DONE"; no step of the
                   \* section calls fatal(), which would give "FATAL"
  HashedSymbols,   \* getBucketSize: its argument, Symbols.size() of .gnu.hash
  NBucketsRet,     \* getBucketSize: what it returned, NoIndex before the call
  strLog,          \* history: the calls of addString on .strtab (S, HashIt,
                   \* Ret and the Size before and after)
  StrTabBuf,       \* the bytes of .strtab: zero as handed to writeTo
  strTabState,      \* "CREATED" or "WRITTEN"
  CmpArgs,         \* sortMipsSymbols: the symbols of L and R, <<>> before a call
  CmpRet,           \* sortMipsSymbols: what the call returned
  \* VersionDefinitionSection (.gnu.version_d)
  VerDefNameOffs,  \* FileDefNameOff and the NameOff of each version; <<>> unset
  verDefState,      \* history: "CREATED" or "FINALIZED"
  \* MipsGotSection::getPageEntryOffset and the page slot of writeTo
  PageArgs,        \* the output section (Addr, Size) and the symbol's offset in it
  PageRet          \* what the call returned and what writeTo put into that slot

gotVars == <<NumEntries, TlsIndexOff, GotSize, GotIndex, GlobalDynIndex,
             gotState, gotLog, tlsCall>>

mipsWriteVars == <<MipsSymVA, OutSecAddr, MipsBuf>>
mipsVars ==
  <<Gots, MipsGotIndex, Preemptible, MipsGotSize, mipsState, MipsScanEntries,
    mipsWriteVars>>
relaOutVars == <<FreeBSDMipsRelocationsHack, RelaSort, RelaBuf, relaState>>
relaDynVars == <<Relocs, NumRelativeRelocs, relaOutVars>>

symtabVars == <<StrTab, SymTab, symtabLog>>
symVars == <<SymKind, DynStrTab, DynSymTab, DynsymIndex, GnuHashTab, HashTab,
             GnuHashBuf, HashBuf, symState, symtabVars>>

ehHdrVars == <<EhHdrBuf, fdeLog, ehHdrState>>
ehVars == <<EhSections, Cies, NumFdes, OutputOff, EhSize, EhBuf, Fdes, ehState,
            ehHdrVars>>

dynVars == <<DynInputs, DynEntries, DynSize, DynBuf, dynState>>

capVars ==
  <<RelocsMap, CapErrors, CapWarnings, CapAdded, CapProcessed, NDEBUG,
    NeedsCopy, CapBuf, capState>>

pltVars ==
  <<Target, PltHeaderSize, PltEntries, IpltEntries, PltIndex, IsInIplt,
    RelaPlt, RelaIplt, pltLog>>

buildIdVars ==
  <<ImageSize, HashSize, NoteBuf, BuildIdHashBuf, Chunks, Hashes,
    HashWrites, BuildIdErrors,
    buildIdState>>

bucketVars == <<HashedSymbols, NBucketsRet>>

stringTableVars == <<strLog, StrTabBuf, strTabState>>

cmpVars == <<CmpArgs, CmpRet>>

verDefVars == <<VerDefNameOffs, verDefState>>

pageVars == <<PageArgs, PageRet>>

vars == <<Config, gotVars, mipsVars, relaDynVars, symVars, ehVars,
  dynVars,
  capVars,
  pltVars,
  buildIdVars,
  bucketVars,
  stringTableVars,
  cmpVars,
  verDefVars,
  pageVars>>

\* What the actions of one family of sections leave alone.
notGotVars == <<Config, mipsVars, relaDynVars, symVars, ehVars,
  dynVars,
  capVars,
  pltVars,
  buildIdVars,
  bucketVars,
  stringTableVars,
  cmpVars,
  verDefVars,
  pageVars>>
notMipsVars == <<Config, NumEntries, TlsIndexOff, GotSize, GlobalDynIndex,
                 gotState, gotLog, tlsCall, symVars, ehVars,
  dynVars,
  capVars,
  pltVars,
  buildIdVars,
  bucketVars,
  stringTableVars,
  cmpVars,
  verDefVars,
  pageVars>>
notSymVars == <<Config, gotVars, mipsVars, relaDynVars, ehVars,
  dynVars,
  capVars,
  pltVars,
  buildIdVars,
  bucketVars,
  stringTableVars,
  cmpVars,
  verDefVars,
  pageVars>>
notEhVars == <<Config, gotVars, mipsVars, relaDynVars, symVars,
  dynVars,
  capVars,
  pltVars,
  buildIdVars,
  bucketVars,
  stringTableVars,
  cmpVars,
  verDefVars,
  pageVars>>
notDynVars ==
  <<Config, gotVars, mipsVars, relaDynVars, symVars, ehVars,
  capVars,
  pltVars,
  buildIdVars,
  bucketVars,
  stringTableVars,
  cmpVars,
  verDefVars,
  pageVars>>
notRelaDynVars ==
  <<Config, gotVars, mipsVars, symVars, ehVars, dynVars,
  capVars,
  pltVars,
  buildIdVars,
  bucketVars,
  stringTableVars,
  cmpVars,
  verDefVars,
  pageVars>>
notCapVars ==
  <<Config, gotVars, mipsVars, relaDynVars, symVars, ehVars, dynVars,
  pltVars,
  buildIdVars,
  bucketVars,
  stringTableVars,
  cmpVars,
  verDefVars,
  pageVars>>
notPltVars ==
  <<Config, gotVars, mipsVars, relaDynVars, symVars, ehVars, dynVars, capVars,
  buildIdVars,
  bucketVars,
  stringTableVars,
  cmpVars,
  verDefVars,
  pageVars>>
notBuildIdVars ==
  <<Config, gotVars, mipsVars, relaDynVars, symVars, ehVars, dynVars, capVars, pltVars,
  bucketVars,
  stringTableVars,
  cmpVars,
  verDefVars,
  pageVars>>
notCapRelaDynVars ==
  <<Config, gotVars, mipsVars, symVars, ehVars, dynVars, pltVars, buildIdVars,
  bucketVars,
  stringTableVars,
  cmpVars,
  verDefVars,
  pageVars>>
notBucketVars ==
  <<Config, gotVars, mipsVars, relaDynVars, symVars, ehVars, dynVars, capVars,
    pltVars, buildIdVars,
  stringTableVars,
  cmpVars,
  verDefVars,
  pageVars>>
notSymStringTableVars ==
  <<Config, gotVars, mipsVars, relaDynVars, ehVars, dynVars, capVars,
    pltVars, buildIdVars, bucketVars,
  cmpVars,
  verDefVars,
  pageVars>>
notStringTableVars ==
  <<Config, gotVars, mipsVars, relaDynVars, symVars, ehVars, dynVars, capVars, pltVars, buildIdVars, bucketVars,
  cmpVars,
  verDefVars,
  pageVars>>
notCmpVars ==
  <<Config, gotVars, mipsVars, relaDynVars, symVars, ehVars, dynVars, capVars, pltVars, buildIdVars, bucketVars, stringTableVars,
  verDefVars,
  pageVars>>
notVerDefVars ==
  <<Config, gotVars, mipsVars, relaDynVars, symVars, ehVars, dynVars, capVars, pltVars, buildIdVars, bucketVars, stringTableVars, cmpVars,
  pageVars>>
notSymVerDefVars ==
  <<Config, gotVars, mipsVars, relaDynVars, ehVars, dynVars, capVars, pltVars,
    buildIdVars, bucketVars, stringTableVars, cmpVars,
  pageVars>>
notPageVars ==
  <<Config, gotVars, mipsVars, relaDynVars, symVars, ehVars, dynVars, capVars, pltVars, buildIdVars, bucketVars, stringTableVars, cmpVars, verDefVars>>

(***************************************************************************)
(* Bounds of the model and constants of the program.                       *)
(***************************************************************************)
NumSyms == 5          \* symbols of the link
NumGotSyms == 3       \* symbols that GOT relocations refer to
MaxGotEntries == 5    \* slots the .got may grow to in the model
MaxHashedSymbols == 131080  \* symbols getBucketSize is asked about
MaxStrings == 4       \* calls of addString on one string table
MaxChunks == 3        \* whole chunks of the largest image hashed
NumPltSyms == 3       \* symbols that get a PLT or an IPLT entry
MaxCapSections == 3   \* __cap_relocs input sections added to one link
MaxRelocs == 4        \* relocations added to .rel(a).dyn one by one
MaxTlsCalls == 3      \* calls of addDynTlsEntry and addTlsIndex followed
MaxFdes == 4          \* calls of EhFrameHeader::addFde
MaxEhSections == 3    \* input sections added to .eh_frame
MaxFinalizes == 2     \* calls of finalizeContents on .dynsym the model follows

\* -1U / uint32_t(-1), "no index assigned": the all-ones word, written -1
\* here (no index the model assigns comes near 2^32 - 1)
NoIndex == -1

Syms == 1..NumSyms
GotSyms == 1..NumGotSyms

\* Config: the fields of the configuration the sections read.  Wordsize is
\* 4 (ELF32) or 8 (ELF64); each specification draws the fields its sections
\* read and leaves the others at these values.
DefaultConfig ==
  [Wordsize |-> 8, Is64 |-> TRUE, Pic |-> FALSE, MipsGotSize |-> 65520,
   EMachineMips |-> FALSE, HasGnuHashTab |-> FALSE, IsRela |-> FALSE,
   Pie |-> FALSE, Static |-> FALSE, AllowUndefinedCapRelocs |-> FALSE,
   BuildId |-> "Fast", BuildIdVector |-> <<>>]

ConfigOfWordsize(base, w) == [base EXCEPT !.Wordsize = w, !.Is64 = (w = 8)]

(***************************************************************************)
(* GotSection                                                              *)
(***************************************************************************)
GotInit ==
  /\ NumEntries = 0
  /\ TlsIndexOff = NoIndex
  /\ GotSize = 0
  /\ GotIndex = [s \in Syms |-> NoIndex]
  /\ GlobalDynIndex = [s \in Syms |-> NoIndex]
  /\ gotState = "CREATED"
  /\ gotLog = <<>>
  /\ tlsCall = [n |-> 0, called |-> {}, op |-> "none", sym |-> 0,
                ret |-> FALSE]

\* A slip in addEntry: the index taken after the increment.
AddEntryIndexAfterIncrement(n) == n + 1

\* The index GotSection::addEntry gives the symbol it registers, n being
\* NumEntries at the call.
AddEntryIndex(n) == n

\* GotSection::addEntry(Sym).  The relocation scan calls it for a symbol
\* that is not yet in the GOT; nothing in it looks at the section's phase.
GotAddEntry(s) ==
  /\ NumEntries < MaxGotEntries
  /\ GotIndex[s] = NoIndex
  /\ GotIndex' = [GotIndex EXCEPT ![s] = AddEntryIndex(NumEntries)]
  /\ NumEntries' = NumEntries + 1
  /\ gotLog' = Append(gotLog, [op |-> "addEntry", sym |-> s])
  /\ UNCHANGED <<TlsIndexOff, GotSize, GlobalDynIndex, gotState>>
  /\ UNCHANGED tlsCall
  /\ UNCHANGED notGotVars

\* The test both TLS registrations start with: the index has been
\* assigned (NeverAssigned: the test left out).
NeverAssigned(idx) == FALSE
AlreadyAssigned(idx) == idx # NoIndex

\* The call recorded: op(sym) returned ret.
Called(op, sym, ret) ==
  [n |-> tlsCall.n + 1, called |-> tlsCall.called \cup {sym}, op |-> op,
   sym |-> sym, ret |-> ret]

\* GotSection::addDynTlsEntry(Sym): returns false, changing nothing, when
\* the symbol already has its pair of slots.
GotAddDynTlsEntry(s) ==
  /\ tlsCall.n < MaxTlsCalls
  /\ IF AlreadyAssigned(GlobalDynIndex[s])
       THEN /\ tlsCall' = Called("addDynTlsEntry", s, FALSE)
            /\ UNCHANGED <<GlobalDynIndex, NumEntries, gotLog>>
       ELSE /\ NumEntries + 2 <= MaxGotEntries
            /\ GlobalDynIndex' = [GlobalDynIndex EXCEPT ![s] = NumEntries]
            /\ NumEntries' = NumEntries + 2
            /\ gotLog' = Append(gotLog, [op |-> "addDynTlsEntry", sym |-> s])
            /\ tlsCall' = Called("addDynTlsEntry", s, TRUE)
  /\ UNCHANGED <<TlsIndexOff, GotSize, GotIndex, gotState>>
  /\ UNCHANGED notGotVars

\* GotSection::addTlsIndex()
GotAddTlsIndex ==
  /\ tlsCall.n < MaxTlsCalls
  /\ IF AlreadyAssigned(TlsIndexOff)
       THEN /\ tlsCall' = Called("addTlsIndex", 0, FALSE)
            /\ UNCHANGED <<TlsIndexOff, NumEntries, gotLog>>
       ELSE /\ NumEntries + 2 <= MaxGotEntries
            /\ TlsIndexOff' = NumEntries * Config.Wordsize
            /\ NumEntries' = NumEntries + 2
            /\ gotLog' = Append(gotLog, [op |-> "addTlsIndex", sym |-> 0])
            /\ tlsCall' = Called("addTlsIndex", 0, TRUE)
  /\ UNCHANGED <<GotSize, GotIndex, GlobalDynIndex, gotState>>
  /\ UNCHANGED notGotVars

\* GotSection::finalizeContents()
GotFinalizeContents ==
  /\ gotState # "WRITTEN"
  /\ GotSize' = NumEntries * Config.Wordsize
  /\ gotState' = "FINALIZED"
  /\ UNCHANGED <<NumEntries, TlsIndexOff, GotIndex, GlobalDynIndex, gotLog>>
  /\ UNCHANGED tlsCall
  /\ UNCHANGED notGotVars

\* GotSection::writeTo(Buf): relocateAlloc over the Size bytes fixed by
\* finalizeContents; the section keeps no state of its own about it.
GotWriteTo ==
  /\ gotState = "FINALIZED"
  /\ gotState' = "WRITTEN"
  /\ UNCHANGED <<NumEntries, TlsIndexOff, GotSize, GotIndex, GlobalDynIndex,
                 gotLog>>
  /\ UNCHANGED tlsCall
  /\ UNCHANGED notGotVars

(***************************************************************************)
(* RelocationSection (In<ELFT>::RelaDyn) as far as the other sections      *)
(* register relocations in it                                              *)
(***************************************************************************)
RelaDynInit ==
  /\ Relocs = <<>>
  /\ NumRelativeRelocs = 0
  /\ FreeBSDMipsRelocationsHack = <<>>
  /\ RelaSort = TRUE
  /\ RelaBuf = <<>>
  /\ relaState = "CREATED"

\* DynamicReloc {Type, InputSec, OffsetInSec, UseSymVA, Sym, Addend}; Sym 0
\* is nullptr, OutputSec 0 is nullptr.
DynamicReloc(type, sec, off, useSymVA, sym, addend) ==
  [Type |-> type, InputSec |-> sec, OffsetInSec |-> off, UseSymVA |-> useSymVA,
   Sym |-> sym, Addend |-> addend, OutputSec |-> 0]

\* DynamicReloc {Type, InputSec, OffsetInSec, OutputSec, Addend}: the form
\* for MIPS page entries, with no symbol.
DynamicRelocPage(type, sec, off, outSec, addend) ==
  [Type |-> type, InputSec |-> sec, OffsetInSec |-> off, UseSymVA |-> FALSE,
   Sym |-> 0, Addend |-> addend, OutputSec |-> outSec]

\* The count RelocationSection::addReloc adds to NumRelativeRelocs for the
\* relocations rs.
CountRelative(rs) == Len(SelectSeq(rs, LAMBDA r : r.Type = "RelativeRel"))

(***************************************************************************)
(* MipsGotSection                                                          *)
(***************************************************************************)
MipsFiles == {1, 2}
OutputSections == {1, 2}

\* MipsGotSection::HeaderEntriesNum: the two reserved slots GOT[0], GOT[1]
HeaderEntriesNum == 2

MaxMipsEntries == 2   \* entries registered over all files in the model
MaxBuildEntries == 3  \* entries registered over all files in SpecMipsGotBuild
MaxPageScanEntries == 4 \* entries registered by the one file of SpecMipsGotPages

\* The symbols MIPS GOT relocations refer to and what they are: TLS or
\* not, and the output section of the DefinedRegular ones.
MipsSyms == {1, 2, 3, 4}
isTls(s) == s \in {3, 4}
SymOutputSection(s) == (s % 2) + 1
\* Symbols that are preemptible when the relocation scan starts.
InitiallyPreemptible == {1, 3}
\* The same for the links of SpecMipsGotBuild: two preemptible symbols that
\* are not TLS.
BuildPreemptible == {1, 2, 3}

\* OutputSection::Size of the output sections page entries refer to.
OutputSectionSize(o) == IF o = 1 THEN 196608 ELSE 16

\* OutputSection::Addr of the same: 0x50000, and 0x47ff8, which the page
\* rounding takes down.
OutputSectionAddr == [o \in OutputSections |-> IF o = 1 THEN 327680 ELSE 294904]

\* SymbolBody::getVA() of the symbols: those that are not TLS lie in their
\* output sections, the TLS ones at 0x9010 and 0x8010 of the TLS segment
\* (above 0x8000, so that the subtractions of writeTo do not wrap).
DefinedSymVA ==
  [s \in MipsSyms |->
     IF s = 3 THEN 36880 ELSE IF s = 4 THEN 32784
     ELSE OutputSectionAddr[SymOutputSection(s)] + 4 * s]
\* The same when the preemptible TLS symbol is one of a shared library,
\* for which getVA() is 0.
SharedTlsSymVA == [DefinedSymVA EXCEPT ![3] = 0]

\* Config->MipsGotSize and Config->Pic of the links modelled: small GOT
\* limits, so that a few entries overflow a partition, and the default.
MipsConfigs ==
  {[ConfigOfWordsize(DefaultConfig, 4) EXCEPT !.EMachineMips = TRUE,
      !.MipsGotSize = 12, !.Pic = FALSE],
   [ConfigOfWordsize(DefaultConfig, 4) EXCEPT !.EMachineMips = TRUE,
      !.MipsGotSize = 16, !.Pic = TRUE],
   [ConfigOfWordsize(DefaultConfig, 8) EXCEPT !.EMachineMips = TRUE,
      !.MipsGotSize = 32, !.Pic = FALSE],
   [ConfigOfWordsize(DefaultConfig, 8) EXCEPT !.EMachineMips = TRUE,
      !.MipsGotSize = 65520, !.Pic = TRUE]}

\* A FileGot as its constructor leaves it.  The maps are MapVectors: a
\* sequence of (key, index) in insertion order, each key once.
FileGot(f) ==
  [File |-> f, StartIndex |-> 0, PageIndexMap |-> <<>>, Local16 |-> <<>>,
   Local32 |-> <<>>, Global |-> <<>>, Relocs |-> <<>>, Tls |-> <<>>,
   DynTlsSymbols |-> <<>>]

\* MapVector::count(k)
MapCount(m, k) == IF \E i \in 1..Len(m) : m[i].key = k THEN 1 ELSE 0

\* MapVector::insert({k, v}): appends unless the key is there.
MapInsert(m, k, v) ==
  IF MapCount(m, k) = 1 THEN m ELSE Append(m, [key |-> k, idx |-> v])

RECURSIVE set_union(_, _)
\* llvm::set_union(S1, S2): inserts every element of S2 into S1.
set_union(S1, S2) ==
  IF S2 = <<>> THEN S1
  ELSE set_union(MapInsert(S1, Head(S2).key, Head(S2).idx), Tail(S2))

\* The keys of map m.
MapKeys(m) == {m[i].key : i \in 1..Len(m)}

\* MapVector::remove_if(Pred), Doomed being the keys Pred holds of.
remove_if(m, Doomed) == SelectSeq(m, LAMBDA e : e.key \notin Doomed)

\* getMipsPageCount(Size) (PagesWithoutSlack: the one page more left out)
PagesWithoutSlack(Size) == (Size + 65534) \div 65535
getMipsPageCount(Size) == (Size + 65534) \div 65535 + 1

RECURSIVE SumPageCount(_)
SumPageCount(m) ==
  IF m = <<>> THEN 0
  ELSE getMipsPageCount(OutputSectionSize(Head(m).key)) + SumPageCount(Tail(m))

\* FileGot::getPageEntriesNum
getPageEntriesNum(G) == SumPageCount(G.PageIndexMap)

\* FileGot::getEntriesNum
getEntriesNum(G) ==
  getPageEntriesNum(G) + Len(G.Local16) + Len(G.Global) + Len(G.Relocs)
    + Len(G.Tls) + Len(G.DynTlsSymbols) * 2

\* FileGot::getIndexEntriesNum
getIndexEntriesNum(G) ==
  LET Count == getPageEntriesNum(G) + Len(G.Local16) + Len(G.Global)
  IN  IF G.Tls # <<>> \/ G.DynTlsSymbols # <<>>
        THEN Count + Len(G.Relocs) + Len(G.Tls) + Len(G.DynTlsSymbols) * 2
        ELSE Count

MipsGotIdle ==
  /\ Gots = <<>>
  /\ MipsGotIndex = [f \in MipsFiles |-> NoIndex]
  /\ Preemptible = InitiallyPreemptible
  /\ MipsGotSize = 0
  /\ mipsState = "CREATED"
  /\ MipsScanEntries = MaxMipsEntries
  /\ MipsSymVA = DefinedSymVA
  /\ OutSecAddr = OutputSectionAddr
  /\ MipsBuf = <<>>

\* The entries the maps of the FileGots hold (what the model bounds).
RECURSIVE StoredEntries(_)
StoredEntries(gots) ==
  IF gots = <<>> THEN 0
  ELSE LET G == Head(gots)
       IN  Len(G.PageIndexMap) + Len(G.Local16) + Len(G.Local32) + Len(G.Global)
             + Len(G.Relocs) + Len(G.Tls) + Len(G.DynTlsSymbols)
             + StoredEntries(Tail(gots))

\* MipsGotSection::getGot(F) as the pair it leaves: Gots and F.MipsGotIndex.
getGot(gots, index, f) ==
  IF index[f] = NoIndex
    THEN [Gots |-> Append(gots, FileGot(f)),
          MipsGotIndex |-> [index EXCEPT ![f] = Len(gots)]]
    ELSE [Gots |-> gots, MipsGotIndex |-> index]

\* The map of a FileGot that MipsGotSection::addEntry inserts into, and the
\* key it inserts.
AddEntryTarget(s, a, expr) ==
  IF expr = "R_MIPS_GOT_LOCAL_PAGE"
    THEN [map |-> "PageIndexMap", key |-> SymOutputSection(s)]
  ELSE IF isTls(s) THEN [map |-> "Tls", key |-> s]
  ELSE IF s \in Preemptible /\ expr = "R_ABS" THEN [map |-> "Relocs", key |-> s]
  ELSE IF s \in Preemptible THEN [map |-> "Global", key |-> s]
  ELSE IF expr = "R_MIPS_GOT_OFF32" THEN [map |-> "Local32", key |-> <<s, a>>]
  ELSE [map |-> "Local16", key |-> <<s, a>>]

\* The insertion of key k into map name of the FileGot of file f.
InsertInto(f, name, k) ==
  LET g == getGot(Gots, MipsGotIndex, f)
      i == g.MipsGotIndex[f] + 1
  IN  /\ Gots' = [g.Gots EXCEPT ![i] =
                    [@ EXCEPT ![name] = MapInsert(@, k, 0)]]
      /\ MipsGotIndex' = g.MipsGotIndex

\* MipsGotSection::addEntry(File, Sym, Addend, Expr)
MipsAddEntry(f, s, a, expr) ==
  /\ mipsState = "CREATED"
  /\ StoredEntries(Gots) < MipsScanEntries
  /\ expr = "R_MIPS_GOT_LOCAL_PAGE" => ~isTls(s)
  /\ LET t == AddEntryTarget(s, a, expr) IN InsertInto(f, t.map, t.key)
  /\ UNCHANGED <<Preemptible, MipsGotSize, mipsState, MipsScanEntries,
                 GotIndex, relaDynVars>>
  /\ UNCHANGED mipsWriteVars
  /\ UNCHANGED notMipsVars

\* MipsGotSection::addDynTlsEntry(File, Sym)
MipsAddDynTlsEntry(f, s) ==
  /\ mipsState = "CREATED"
  /\ StoredEntries(Gots) < MipsScanEntries
  /\ isTls(s)
  /\ InsertInto(f, "DynTlsSymbols", s)
  /\ UNCHANGED <<Preemptible, MipsGotSize, mipsState, MipsScanEntries,
                 GotIndex, relaDynVars>>
  /\ UNCHANGED mipsWriteVars
  /\ UNCHANGED notMipsVars

\* MipsGotSection::addTlsIndex(File)
MipsAddTlsIndex(f) ==
  /\ mipsState = "CREATED"
  /\ StoredEntries(Gots) < MipsScanEntries
  /\ InsertInto(f, "DynTlsSymbols", 0)
  /\ UNCHANGED <<Preemptible, MipsGotSize, mipsState, MipsScanEntries,
                 GotIndex, relaDynVars>>
  /\ UNCHANGED mipsWriteVars
  /\ UNCHANGED notMipsVars

\* The relocation scan gives a preemptible symbol a copy relocation, after
\* which isPreemptible() is false for it (the case the first loop of
\* MipsGotSection::build provides for).
MipsCopyRelocation(s) ==
  /\ mipsState = "CREATED"
  /\ s \in Preemptible /\ ~isTls(s)
  /\ Preemptible' = Preemptible \ {s}
  /\ UNCHANGED <<Gots, MipsGotIndex, MipsGotSize, mipsState,
                 MipsScanEntries, GotIndex,
                 relaDynVars>>
  /\ UNCHANGED mipsWriteVars
  /\ UNCHANGED notMipsVars

RECURSIVE Flatten(_)
\* The concatenation of a sequence of sequences.
Flatten(ss) == IF ss = <<>> THEN <<>> ELSE Head(ss) \o Flatten(Tail(ss))

\* build, first loop, for one FileGot: move the symbols that are no longer
\* preemptible from Global to Local16 (addend 0).
MigrateGlobals(G) ==
  LET np == SelectSeq(G.Global, LAMBDA e : e.key \notin Preemptible)
      asLocal == [i \in 1..Len(np) |-> [key |-> <<np[i].key, 0>>, idx |-> 0]]
  IN  [G EXCEPT !.Local16 = set_union(@, asLocal),
                !.Global = remove_if(@, MapKeys(G.Global) \ Preemptible)]

\* build, second loop, for one FileGot: drop the reloc-only entries that
\* have a global entry, and move Local32 behind Local16.
DropRelocsAndJoinLocals(G) ==
  [G EXCEPT !.Relocs = remove_if(@, MapKeys(G.Global)),
            !.Local16 = set_union(@, G.Local32),
            !.Local32 = <<>>]

RECURSIVE CollectRelocs(_, _)
\* build, third loop: the Relocs of the future primary GOT, the union of
\* every FileGot's Global and Relocs in order.
CollectRelocs(acc, gots) ==
  IF gots = <<>> THEN acc
  ELSE CollectRelocs(set_union(set_union(acc, Head(gots).Global),
                               Head(gots).Relocs),
                     Tail(gots))

\* MipsGotSection::tryMergeGots(Dst, Src, IsPrimary): whether it merged, and
\* Dst as it leaves it.
tryMergeGots(Dst, Src, IsPrimary) ==
  LET Tmp == [Dst EXCEPT
                !.PageIndexMap = set_union(@, Src.PageIndexMap),
                !.Local16 = set_union(@, Src.Local16),
                !.Global = set_union(@, Src.Global),
                !.Relocs = set_union(@, Src.Relocs),
                !.Tls = set_union(@, Src.Tls),
                !.DynTlsSymbols = set_union(@, Src.DynTlsSymbols)]
      Count == (IF IsPrimary THEN HeaderEntriesNum ELSE 0)
                 + getIndexEntriesNum(Tmp)
  IN  IF Count * Config.Wordsize > Config.MipsGotSize
        THEN [ok |-> FALSE, got |-> Dst]
        ELSE [ok |-> TRUE, got |-> Tmp]

\* build, the merge loop: the MipsGotIndex a file gets, the last position
\* of MergedGots (PrimaryGotIndex: the first).
PrimaryGotIndex(MergedGots) == 0
LastGotIndex(MergedGots) == Len(MergedGots) - 1

RECURSIVE MergeGots(_, _, _)
\* build, the merge loop over the FileGots srcs: MergedGots and every file's
\* MipsGotIndex as it leaves them.  The destination is the primary GOT
\* exactly while MergedGots holds one element.
MergeGots(merged, srcs, index) ==
  IF srcs = <<>> THEN [Gots |-> merged, MipsGotIndex |-> index]
  ELSE LET Src == Head(srcs)
           n == Len(merged)
           r == tryMergeGots(merged[n], Src, n = 1)
           merged2 == IF r.ok THEN [merged EXCEPT ![n] = r.got]
                              ELSE Append(merged, Src)
       IN  MergeGots(merged2, Tail(srcs),
                     [index EXCEPT ![Src.File] = LastGotIndex(merged2)])

\* The entries of map m numbered from base, step slots apart.
NumberFrom(m, base, step) ==
  [i \in 1..Len(m) |-> [key |-> m[i].key, idx |-> base + (i - 1) * step]]

\* The page entries numbered from base: each takes the page count of its
\* output section.
NumberPages(m, base) ==
  [i \in 1..Len(m) |->
     [key |-> m[i].key, idx |-> base + SumPageCount(SubSeq(m, 1, i - 1))]]

\* build, "Calculate indexes for each GOT entry", for one FileGot starting
\* at Index (AssignIndexesOneSlotEach: Index += 1 in the last loop).
AssignIndexesOneSlotEach(G, Index, IsPrimary) ==
  LET i1 == Index + getPageEntriesNum(G)
      i2 == i1 + Len(G.Local16)
      i3 == i2 + Len(G.Global)
      i4 == i3 + Len(G.Relocs)
      i5 == i4 + Len(G.Tls)
  IN  [G EXCEPT !.StartIndex = IF IsPrimary THEN 0 ELSE Index,
                !.PageIndexMap = NumberPages(@, Index),
                !.Local16 = NumberFrom(@, i1, 1),
                !.Global = NumberFrom(@, i2, 1),
                !.Relocs = NumberFrom(@, i3, 1),
                !.Tls = NumberFrom(@, i4, 1),
                !.DynTlsSymbols = NumberFrom(@, i5, 1)]
AssignIndexes(G, Index, IsPrimary) ==
  LET i1 == Index + getPageEntriesNum(G)
      i2 == i1 + Len(G.Local16)
      i3 == i2 + Len(G.Global)
      i4 == i3 + Len(G.Relocs)
      i5 == i4 + Len(G.Tls)
  IN  [G EXCEPT !.StartIndex = IF IsPrimary THEN 0 ELSE Index,
                !.PageIndexMap = NumberPages(@, Index),
                !.Local16 = NumberFrom(@, i1, 1),
                !.Global = NumberFrom(@, i2, 1),
                !.Relocs = NumberFrom(@, i3, 1),
                !.Tls = NumberFrom(@, i4, 1),
                !.DynTlsSymbols = NumberFrom(@, i5, 2)]

RECURSIVE AssignAll(_, _, _)
\* The index loop over gots from position k on, Index being the running
\* total.
AssignAll(gots, k, Index) ==
  IF k > Len(gots) THEN gots
  ELSE AssignAll([gots EXCEPT ![k] = AssignIndexes(@, Index, k = 1)], k + 1,
                 Index + getEntriesNum(gots[k]))

\* build, "Create dynamic relocations", for one FileGot.
TlsRelocs(G) ==
  Flatten([i \in 1..Len(G.Tls) |->
    IF G.Tls[i].key \in Preemptible
      THEN <<DynamicReloc("TlsGotRel", "MipsGot",
                          G.Tls[i].idx * Config.Wordsize, FALSE, G.Tls[i].key, 0)>>
      ELSE <<>>])

DynTlsRelocs(G) ==
  Flatten([i \in 1..Len(G.DynTlsSymbols) |->
    LET P == G.DynTlsSymbols[i]
        Offset == P.idx * Config.Wordsize
    IN  IF P.key = 0
          THEN IF ~Config.Pic THEN <<>>
               ELSE <<DynamicReloc("TlsModuleIndexRel", "MipsGot", Offset,
                                   FALSE, 0, 0)>>
          ELSE IF P.key \notin Preemptible THEN <<>>
               ELSE <<DynamicReloc("TlsModuleIndexRel", "MipsGot", Offset,
                                   FALSE, P.key, 0),
                      DynamicReloc("TlsOffsetRel", "MipsGot",
                                   Offset + Config.Wordsize, FALSE, P.key, 0)>>])

GlobalRelocs(G) ==
  [i \in 1..Len(G.Global) |->
     DynamicReloc("RelativeRel", "MipsGot", G.Global[i].idx * Config.Wordsize,
                  FALSE, G.Global[i].key, 0)]

PageRelocs(G) ==
  Flatten([i \in 1..Len(G.PageIndexMap) |->
    LET L == G.PageIndexMap[i]
        PageCount == getMipsPageCount(OutputSectionSize(L.key))
    IN  [PI \in 1..PageCount |->
           DynamicRelocPage("RelativeRel", "MipsGot",
                            (L.idx + (PI - 1)) * Config.Wordsize, L.key,
                            (PI - 1) * 65536)]])

LocalRelocs(G) ==
  [i \in 1..Len(G.Local16) |->
     DynamicReloc("RelativeRel", "MipsGot", G.Local16[i].idx * Config.Wordsize,
                  TRUE, G.Local16[i].key[1], G.Local16[i].key[2])]

GotRelocsWithoutLocals(G, IsPrimary) ==
  TlsRelocs(G) \o DynTlsRelocs(G)
    \o (IF IsPrimary THEN <<>>
        ELSE GlobalRelocs(G)
               \o (IF ~Config.Pic THEN <<>> ELSE PageRelocs(G)))
GotRelocs(G, IsPrimary) ==
  TlsRelocs(G) \o DynTlsRelocs(G)
    \o (IF IsPrimary THEN <<>>
        ELSE GlobalRelocs(G)
               \o (IF ~Config.Pic THEN <<>>
                   ELSE PageRelocs(G) \o LocalRelocs(G)))

\* The index of key k in map m (k is a key of m).
MapIdx(m, k) == (CHOOSE e \in {m[i] : i \in 1..Len(m)} : e.key = k).idx

\* build, "Reduce number of reloc-only entries in the primary GOT", for
\* the primary GOT (KeepRelocs: without the remove_if).
KeepRelocs(PrimGot) == PrimGot
ReduceRelocs(PrimGot) ==
  [PrimGot EXCEPT !.Relocs = remove_if(@, MapKeys(PrimGot.Global))]

\* MipsGotSection::build() for a non-empty Gots: Gots, every file's
\* MipsGotIndex, every symbol's GotIndex and the relocations it registers.
BuildResult ==
  LET g1 == [i \in 1..Len(Gots) |->
               DropRelocsAndJoinLocals(MigrateGlobals(Gots[i]))]
      Prim0 == [FileGot(0) EXCEPT !.Relocs = CollectRelocs(<<>>, g1)]
      g2 == [i \in 1..Len(g1) |-> [g1[i] EXCEPT !.Relocs = <<>>]]
      m == MergeGots(<<Prim0>>, g2, MipsGotIndex)
      g3 == [m.Gots EXCEPT ![1] = ReduceRelocs(@)]
      g4 == AssignAll(g3, 1, HeaderEntriesNum)
      PrimGot == g4[1]
  IN  [Gots |-> g4,
       MipsGotIndex |-> m.MipsGotIndex,
       GotIndex |->
         [s \in Syms |->
            IF MapCount(PrimGot.Global, s) = 1 THEN MapIdx(PrimGot.Global, s)
            ELSE IF MapCount(PrimGot.Relocs, s) = 1
              THEN MapIdx(PrimGot.Relocs, s)
            ELSE GotIndex[s]],
       NewRelocs |-> Flatten([i \in 1..Len(g4) |-> GotRelocs(g4[i], i = 1)])]

\* MipsGotSection::build()
MipsBuild ==
  /\ mipsState = "CREATED"
  /\ mipsState' = "BUILT"
  /\ IF Gots = <<>>
       THEN UNCHANGED <<Gots, MipsGotIndex, GotIndex, relaDynVars>>
       ELSE LET r == BuildResult
            IN  /\ Gots' = r.Gots
                /\ MipsGotIndex' = r.MipsGotIndex
                /\ GotIndex' = r.GotIndex
                /\ Relocs' = Relocs \o r.NewRelocs
                /\ NumRelativeRelocs' =
                     NumRelativeRelocs + CountRelative(r.NewRelocs)
                /\ UNCHANGED relaOutVars
  /\ UNCHANGED <<Preemptible, MipsGotSize, MipsScanEntries>>
  /\ UNCHANGED mipsWriteVars
  /\ UNCHANGED notMipsVars

RECURSIVE SumEntriesNum(_)
SumEntriesNum(gots) ==
  IF gots = <<>> THEN 0
  ELSE getEntriesNum(Head(gots)) + SumEntriesNum(Tail(gots))

\* MipsGotSection::updateAllocSize(): the Size it computes.
updateAllocSize(gots) ==
  HeaderEntriesNum * Config.Wordsize + SumEntriesNum(gots) * Config.Wordsize

\* MipsGotSection::finalizeContents()
MipsFinalizeContents ==
  /\ mipsState = "BUILT"
  /\ mipsState' = "FINALIZED"
  /\ MipsGotSize' = updateAllocSize(Gots)
  /\ UNCHANGED <<Gots, MipsGotIndex, Preemptible, MipsScanEntries, GotIndex,
                 relaDynVars>>
  /\ UNCHANGED mipsWriteVars
  /\ UNCHANGED notMipsVars

(***************************************************************************)
(* Bit operations and the hash functions                                   *)
(***************************************************************************)
RECURSIVE BitAnd(_, _)
\* a & b, for naturals
BitAnd(a, b) ==
  IF a = 0 \/ b = 0 THEN 0
  ELSE (a % 2) * (b % 2) + 2 * BitAnd(a \div 2, b \div 2)

RECURSIVE BitXor(_, _)
\* a ^ b, for naturals
BitXor(a, b) ==
  IF a = 0 THEN b
  ELSE IF b = 0 THEN a
  ELSE ((a + b) % 2) + 2 * BitXor(a \div 2, b \div 2)

RECURSIVE Pow2(_)
Pow2(n) == IF n = 0 THEN 1 ELSE 2 * Pow2(n - 1)

\* SymbolBody::getName(), as bytes.  The names of the model have one or two
\* bytes, so both hashes stay below 2^31 and their uint32_t arithmetic
\* never wraps.
getName(s) == IF s % 2 = 1 THEN <<96 + s>> ELSE <<96 + s, 48 + 3 * s>>

RECURSIVE hashGnuFrom(_, _)
hashGnuFrom(H, Name) ==
  IF Name = <<>> THEN H
  ELSE hashGnuFrom(H * 32 + H + Head(Name), Tail(Name))

\* hashGnu(Name): H = 5381; H = (H << 5) + H + C for every byte
hashGnu(Name) == hashGnuFrom(5381, Name)

RECURSIVE hashSysVFrom(_, _)
hashSysVFrom(H, Name) ==
  IF Name = <<>> THEN H
  ELSE LET h1 == H * 16 + Head(Name)
           \* G = H & 0xf0000000
           G == (h1 \div 268435456) * 268435456
           h2 == IF G # 0 THEN BitXor(h1, G \div 16777216) ELSE h1
       IN  \* H &= ~G
           hashSysVFrom(h2 - BitAnd(h2, G), Tail(Name))

\* llvm::object::hashSysV(Name), the classical System V ELF hash
hashSysV(Name) == hashSysVFrom(0, Name)

RECURSIVE NextPowerOf2From(_, _)
NextPowerOf2From(A, P) == IF P > A THEN P ELSE NextPowerOf2From(A, 2 * P)

\* llvm::NextPowerOf2(A): the least power of two greater than A
NextPowerOf2(A) == NextPowerOf2From(A, 1)

(***************************************************************************)
(* StringTableSection                                                      *)
(***************************************************************************)
\* StringTableSection::addString(S, HashIt) on table tab: the table as it
\* leaves it and the offset it returns (addStringUnterminated: the size
\* grows by S.size() only).
addStringUnterminated(tab, S, HashIt) ==
  IF HashIt /\ S \in DOMAIN tab.StringMap
    THEN [tab |-> tab, Ret |-> tab.StringMap[S]]
    ELSE [tab |->
            [Size |-> tab.Size + Len(S),
             Strings |-> Append(tab.Strings, S),
             StringMap |->
               IF HashIt
                 THEN [k \in DOMAIN tab.StringMap \cup {S} |->
                         IF k = S THEN tab.Size ELSE tab.StringMap[k]]
                 ELSE tab.StringMap],
          Ret |-> tab.Size]
addString(tab, S, HashIt) ==
  IF HashIt /\ S \in DOMAIN tab.StringMap
    THEN [tab |-> tab, Ret |-> tab.StringMap[S]]
    ELSE [tab |->
            [Size |-> tab.Size + Len(S) + 1,
             Strings |-> Append(tab.Strings, S),
             StringMap |->
               IF HashIt
                 THEN [k \in DOMAIN tab.StringMap \cup {S} |->
                         IF k = S THEN tab.Size ELSE tab.StringMap[k]]
                 ELSE tab.StringMap],
          Ret |-> tab.Size]

\* StringTableSection::StringTableSection: adds the empty string, so that
\* the table starts with a NUL byte.
StringTableSection ==
  addString([Size |-> 0, Strings |-> <<>>, StringMap |-> <<>>], <<>>, TRUE).tab

\* No call of addString on .strtab but the constructor's, nothing written.
StringTableIdle ==
  /\ strLog = <<>>
  /\ StrTabBuf = <<>>
  /\ strTabState = "CREATED"

\* The strings the callers of the model hand to addString: the empty one,
\* two that share their end, and two that share their start.
StringInputs == {<<>>, <<97>>, <<98, 97>>, <<97, 98>>}

\* A call of addString(S, HashIt) on .strtab
StrTabAddString(S, HashIt) ==
  /\ strTabState = "CREATED"
  /\ Len(strLog) < MaxStrings
  /\ LET r == addString(StrTab, S, HashIt)
     IN  /\ StrTab' = r.tab
         /\ strLog' = Append(strLog, [S |-> S, HashIt |-> HashIt,
                                      Ret |-> r.Ret, Before |-> StrTab.Size,
                                      After |-> r.tab.Size])
  /\ UNCHANGED <<StrTabBuf, strTabState>>
  /\ UNCHANGED <<SymKind, DynStrTab, DynSymTab, DynsymIndex, GnuHashTab,
                 HashTab, GnuHashBuf, HashBuf, symState, SymTab, symtabLog>>
  /\ UNCHANGED notSymStringTableVars

\* memcpy(Buf, S.data(), S.size()) with Buf at byte Off (from 0) of B
memcpyAt(B, Off, S) ==
  [i \in 1..Len(B) |->
     IF i > Off /\ i <= Off + Len(S) THEN S[i - Off] ELSE B[i]]

\* StringTableSection::writeTo(Buf), from string k of Strings on
RECURSIVE strTabWriteFrom(_, _, _, _)
strTabWriteFrom(B, Off, Strings, k) ==
  IF k > Len(Strings) THEN B
  ELSE strTabWriteFrom(memcpyAt(B, Off, Strings[k]),
                       Off + Len(Strings[k]) + 1, Strings, k + 1)

\* StringTableSection::writeTo(Buf) of .strtab, on the Size zero bytes the
\* output gives the section
StrTabWriteTo ==
  /\ strTabState = "CREATED"
  /\ StrTabBuf' = strTabWriteFrom([i \in 1..StrTab.Size |-> 0], 0,
                                  StrTab.Strings, 1)
  /\ strTabState' = "WRITTEN"
  /\ UNCHANGED strLog
  /\ UNCHANGED symVars
  /\ UNCHANGED notSymStringTableVars

(***************************************************************************)
(* SymbolTableBaseSection (.dynsym, .symtab)                               *)
(***************************************************************************)
isLocal(s) == SymKind[s] = "local"
isUndefined(s) == SymKind[s] = "undefined"
\* S.Symbol->symbol()->computeBinding() == STB_LOCAL
bindsLocal(s) == SymKind[s] = "hidden"
\* SymbolBody::isInGot()
isInGot(s) == GotIndex[s] # NoIndex

\* The symbols of a table, in order.
SymbolsOf(V) == [i \in 1..Len(V) |-> V[i].Symbol]

\* std::stable_partition(V, Pred), First being the symbols Pred holds of
\* (unpartitioned: the vector left as it was).
unpartitioned(V, First) == V
stable_partition(V, First) ==
  SelectSeq(V, LAMBDA e : e.Symbol \in First)
    \o SelectSeq(V, LAMBDA e : e.Symbol \notin First)

RECURSIVE InsertByKey(_, _, _)
\* e put into the key-sorted sequence sorted, behind the elements whose key
\* is not greater.
InsertByKey(sorted, e, key) ==
  IF sorted = <<>> THEN <<e>>
  ELSE IF key[sorted[Len(sorted)]] <= key[e] THEN Append(sorted, e)
  ELSE Append(InsertByKey(SubSeq(sorted, 1, Len(sorted) - 1), e, key),
              sorted[Len(sorted)])

RECURSIVE stable_sort_from(_, _, _)
stable_sort_from(sorted, rest, key) ==
  IF rest = <<>> THEN sorted
  ELSE stable_sort_from(InsertByKey(sorted, Head(rest), key), Tail(rest), key)

\* std::stable_sort(V, Less), Less comparing the keys key[e] of the elements
stable_sort(V, key) == stable_sort_from(<<>>, V, key)

\* sortMipsSymbols(L, R), L and R being the symbols of the two entries
sortMipsSymbols(L, R) ==
  IF ~isInGot(L) \/ ~isInGot(R) THEN ~isInGot(L)
  ELSE GotIndex[L] < GotIndex[R]

\* No call of sortMipsSymbols yet.
SortMipsIdle ==
  /\ CmpArgs = <<>>
  /\ CmpRet = FALSE

\* A call sortMipsSymbols(L, R) of std::stable_sort
SortMipsCompare(L, R) ==
  /\ CmpArgs' = <<L, R>>
  /\ CmpRet' = sortMipsSymbols(L, R)
  /\ UNCHANGED notCmpVars

\* The orders of the elements of V, a sequence without repetitions.
Orders(V) ==
  {p \in [1..Len(V) -> {V[i] : i \in 1..Len(V)}] :
     \A i, j \in 1..Len(V) : i # j => p[i] # p[j]}

\* std::stable_sort(V, sortMipsSymbols).  sortMipsSymbols(L, R) holds both
\* ways round for two symbols that are not in the GOT, which std::stable_sort
\* does not allow, so the order it leaves among those is unspecified; they
\* precede the symbols in the GOT, which it orders by GotIndex.
sortMipsOutcomes(V) ==
  LET out == SelectSeq(V, LAMBDA e : ~isInGot(e.Symbol))
      in == SelectSeq(V, LAMBDA e : isInGot(e.Symbol))
      key == [e \in {in[i] : i \in 1..Len(in)} |-> GotIndex[e.Symbol]]
  IN  {o \o stable_sort(in, key) : o \in Orders(out)}

\* getBucketSize(NumSymbols): the first N of the list with N <= NumSymbols
\* (getLastBucketSize: the last one).
getLastBucketSize(NumSymbols) ==
  LET Primes == <<131071, 65521, 32749, 16381, 8191, 4093, 2039, 1021, 509,
                  251, 127, 61, 31, 13, 7, 3, 1>>
      ok == {i \in 1..Len(Primes) : Primes[i] <= NumSymbols}
  IN  IF ok = {} THEN 0 ELSE Primes[CHOOSE i \in ok : \A j \in ok : i >= j]
getBucketSize(NumSymbols) ==
  LET Primes == <<131071, 65521, 32749, 16381, 8191, 4093, 2039, 1021, 509,
                  251, 127, 61, 31, 13, 7, 3, 1>>
      ok == {i \in 1..Len(Primes) : Primes[i] <= NumSymbols}
  IN  IF ok = {} THEN 0 ELSE Primes[CHOOSE i \in ok : \A j \in ok : i <= j]

\* No call of getBucketSize yet.
BucketSizeIdle ==
  /\ HashedSymbols = 0
  /\ NBucketsRet = NoIndex

\* The call NBuckets = getBucketSize(Symbols.size()) of addSymbols
GetBucketSize ==
  /\ NBucketsRet = NoIndex
  /\ HashedSymbols >= 1
  /\ NBucketsRet' = getBucketSize(HashedSymbols)
  /\ UNCHANGED HashedSymbols
  /\ UNCHANGED notBucketVars

\* The bucket GnuHashTableSection sorts and groups an entry by
\* (WholeHash: the hash itself).
WholeHash(Hash, NBuckets) == Hash
BucketOf(Hash, NBuckets) == Hash % NBuckets

\* The entries GnuHashTableSection::addSymbols starts from: those Symbols
\* already holds.
EntriesBeforeAdd(Symbols) == Symbols

\* GnuHashTableSection::addSymbols(V) on table gnu: the table and V as it
\* leaves them.
addSymbols(gnu, V) ==
  LET Undef == {s \in Syms : isUndefined(s)}
      P == stable_partition(V, Undef)
      Head_ == SelectSeq(P, LAMBDA e : e.Symbol \in Undef)
      Rest == SelectSeq(P, LAMBDA e : e.Symbol \notin Undef)
  IN  IF Rest = <<>> THEN [gnu |-> gnu, V |-> P]
      ELSE
        LET All == EntriesBeforeAdd(gnu.Symbols)
                     \o [i \in 1..Len(Rest) |->
                           [Body |-> Rest[i].Symbol,
                            StrTabOffset |-> Rest[i].StrTabOffset,
                            Hash |-> hashGnu(getName(Rest[i].Symbol))]]
            NB == getBucketSize(Len(All))
            key == [e \in {All[i] : i \in 1..Len(All)} |->
                      BucketOf(e.Hash, NB)]
            Sorted == stable_sort(All, key)
        IN  [gnu |-> [gnu EXCEPT !.Symbols = Sorted, !.NBuckets = NB],
             V |-> Head_ \o [i \in 1..Len(Sorted) |->
                               [Symbol |-> Sorted[i].Body,
                                StrTabOffset |-> Sorted[i].StrTabOffset]]]

\* The index finalizeContents gives the entry at position i (from 1) of
\* the final order: S.Symbol->DynsymIndex = ++I (IndexFromZero: I++).
IndexFromZero(i) == i - 1
IndexOfPosition(i) == i

\* The DynsymIndex of every symbol once the loop over V has run: a symbol
\* keeps the index of its last entry in V.
AssignDynsymIndex(V) ==
  [s \in Syms |->
     LET at == {i \in 1..Len(V) : V[i].Symbol = s}
     IN  IF at = {} THEN DynsymIndex[s]
         ELSE IndexOfPosition(CHOOSE i \in at : \A j \in at : j <= i)]

\* SymbolTableBaseSection::finalizeContents() of .dynsym, V being the order
\* the sort left.
DynSymFinalized(gnu, V) ==
  /\ DynSymTab' = [Symbols |-> V, Info |-> 1]
  /\ GnuHashTab' = gnu
  /\ DynsymIndex' = AssignDynsymIndex(V)

finalizeContentsDynSym ==
  IF Config.HasGnuHashTab
    THEN LET r == addSymbols(GnuHashTab, DynSymTab.Symbols)
         IN  DynSymFinalized(r.gnu, r.V)
  ELSE IF Config.EMachineMips
    THEN \E V \in sortMipsOutcomes(DynSymTab.Symbols) :
           DynSymFinalized(GnuHashTab, V)
  ELSE DynSymFinalized(GnuHashTab, DynSymTab.Symbols)

\* SymbolTableBaseSection::getNumSymbols(): the entries and the null entry
getNumSymbols(tab) == Len(tab.Symbols) + 1

\* GnuHashTableSection::getShift2()
getShift2 == IF Config.Is64 THEN 6 ELSE 5

SymIdle ==
  /\ SymKind = [s \in Syms |-> "global"]
  /\ DynStrTab = StringTableSection
  /\ StrTab = StringTableSection
  /\ DynSymTab = [Symbols |-> <<>>, Info |-> 0]
  /\ SymTab = [Symbols |-> <<>>, Info |-> 0]
  /\ DynsymIndex = [s \in Syms |-> 0]
  /\ GnuHashTab = [Symbols |-> <<>>, NBuckets |-> 0, MaskWords |-> 0,
                   Size |-> 0]
  /\ HashTab = [Size |-> 0]
  /\ GnuHashBuf = <<>>
  /\ HashBuf = <<>>
  /\ symtabLog = <<>>
  /\ symState = [dynsym |-> 0, symtab |-> 0, gnuhash |-> 0, hash |-> 0,
                 gnuhashWritten |-> FALSE, hashWritten |-> FALSE]

\* SymbolTableBaseSection::addSymbol(B) on .dynsym.  The writer adds each
\* symbol once, and no local one (the assert).
DynSymAddSymbol(s) ==
  /\ symState.dynsym = 0
  /\ ~isLocal(s) /\ ~bindsLocal(s)
  /\ \A i \in 1..Len(DynSymTab.Symbols) : DynSymTab.Symbols[i].Symbol # s
  /\ LET r == addString(DynStrTab, getName(s), isLocal(s))
     IN  /\ DynStrTab' = r.tab
         /\ DynSymTab' = [DynSymTab EXCEPT !.Symbols =
                            Append(@, [Symbol |-> s, StrTabOffset |-> r.Ret])]
  /\ UNCHANGED <<SymKind, DynsymIndex, GnuHashTab, HashTab, GnuHashBuf,
                 HashBuf, symState, symtabVars>>
  /\ UNCHANGED notSymVars

\* SymbolTableBaseSection::finalizeContents() on .dynsym, run once by the
\* writer's finalize pass.
DynSymFinalizeContents ==
  /\ symState.dynsym = 0
  /\ finalizeContentsDynSym
  /\ symState' = [symState EXCEPT !.dynsym = 1]
  /\ UNCHANGED <<SymKind, DynStrTab, HashTab, GnuHashBuf, HashBuf,
                 symtabVars>>
  /\ UNCHANGED notSymVars

\* SymbolTableBaseSection::finalizeContents() on .dynsym, called again.
DynSymRefinalizeContents ==
  /\ symState.dynsym \in 1..(MaxFinalizes - 1)
  /\ symState.gnuhash = 0 /\ symState.hash = 0
  /\ finalizeContentsDynSym
  /\ symState' = [symState EXCEPT !.dynsym = @ + 1]
  /\ UNCHANGED <<SymKind, DynStrTab, HashTab, GnuHashBuf, HashBuf,
                 symtabVars>>
  /\ UNCHANGED notSymVars

\* SymbolTableBaseSection::addSymbol(B) on .symtab
SymTabAddSymbol(s) ==
  /\ symState.symtab = 0
  /\ \A i \in 1..Len(SymTab.Symbols) : SymTab.Symbols[i].Symbol # s
  /\ LET r == addString(StrTab, getName(s), isLocal(s))
     IN  /\ StrTab' = r.tab
         /\ SymTab' = [SymTab EXCEPT !.Symbols =
                         Append(@, [Symbol |-> s, StrTabOffset |-> r.Ret])]
  /\ symtabLog' = Append(symtabLog, s)
  /\ UNCHANGED <<SymKind, DynStrTab, DynSymTab, DynsymIndex, GnuHashTab,
                 HashTab, GnuHashBuf, HashBuf, symState>>
  /\ UNCHANGED notSymVars

\* SymbolTableBaseSection::finalizeContents() on .symtab: it sets the
\* link of the output section and nothing else.
SymTabFinalizeContents ==
  /\ symState.symtab = 0
  /\ symState' = [symState EXCEPT !.symtab = 1]
  /\ UNCHANGED <<SymKind, DynStrTab, DynSymTab, DynsymIndex, GnuHashTab,
                 HashTab, GnuHashBuf, HashBuf, symtabVars>>
  /\ UNCHANGED notSymVars

\* SymbolTableBaseSection::postThunkContents() on .symtab
SymTabPostThunkContents ==
  /\ symState.symtab = 1
  /\ LET Locals == {s \in Syms : isLocal(s) \/ bindsLocal(s)}
         V == stable_partition(SymTab.Symbols, Locals)
         NumLocals == Len(SelectSeq(V, LAMBDA e : e.Symbol \in Locals))
     IN  SymTab' = [Symbols |-> V, Info |-> NumLocals + 1]
  /\ symState' = [symState EXCEPT !.symtab = 2]
  /\ UNCHANGED <<SymKind, DynStrTab, DynSymTab, DynsymIndex, GnuHashTab,
                 HashTab, GnuHashBuf, HashBuf, StrTab, symtabLog>>
  /\ UNCHANGED notSymVars

(***************************************************************************)
(* GnuHashTableSection (.gnu.hash)                                         *)
(***************************************************************************)
\* GnuHashTableSection::finalizeContents()
GnuHashFinalizeContents ==
  /\ Config.HasGnuHashTab
  /\ symState.dynsym >= 1
  /\ symState.gnuhash = 0
  /\ LET n == Len(GnuHashTab.Symbols)
         MaskWords == IF n = 0 THEN 1
                      ELSE NextPowerOf2((n - 1) \div Config.Wordsize)
     IN  GnuHashTab' =
           [GnuHashTab EXCEPT
              !.MaskWords = MaskWords,
              !.Size = 16 + Config.Wordsize * MaskWords
                         + GnuHashTab.NBuckets * 4 + n * 4]
  /\ symState' = [symState EXCEPT !.gnuhash = 1]
  /\ UNCHANGED <<SymKind, DynStrTab, DynSymTab, DynsymIndex, HashTab,
                 GnuHashBuf, HashBuf, symtabVars>>
  /\ UNCHANGED notSymVars

\* The second bit writeBloomFilter sets for a hash, C being the bits of a
\* word (BloomBit2Unshifted: the shift by getShift2() left out).
BloomBit2Unshifted(Hash, C) == Hash % C
BloomBit2(Hash, C) == (Hash \div Pow2(getShift2)) % C

RECURSIVE writeBloomFilterFrom(_, _)
\* A Bloom word is the set of the positions of its one bits.
writeBloomFilterFrom(Bloom, Symbols) ==
  IF Symbols = <<>> THEN Bloom
  ELSE LET C == Config.Wordsize * 8
           Sym == Head(Symbols)
           I == BitAnd(Sym.Hash \div C, GnuHashTab.MaskWords - 1)
       IN  writeBloomFilterFrom(
             [Bloom EXCEPT ![I] = @ \cup {Sym.Hash % C, BloomBit2(Sym.Hash, C)}],
             Tail(Symbols))

\* GnuHashTableSection::writeBloomFilter(Buf) on a zeroed buffer
writeBloomFilter ==
  writeBloomFilterFrom([i \in 0..(GnuHashTab.MaskWords - 1) |-> {}],
                       GnuHashTab.Symbols)

\* The value writeHashTable writes for the last entry of a chain
\* (ChainEndUnmarked: the LSB cleared as for the other entries).
ChainEndUnmarked(Hash) == Hash - (Hash % 2)
ChainEnd(Hash) == Hash - (Hash % 2) + 1

\* GnuHashTableSection::writeHashTable(Buf) on a zeroed buffer: the
\* buckets and the hash values.
writeHashTable ==
  LET NB == GnuHashTab.NBuckets
      Group(I) == SelectSeq(GnuHashTab.Symbols, LAMBDA e : e.Hash % NB = I)
      ValuesOf(Vec) ==
        [k \in 1..Len(Vec) |->
           IF k < Len(Vec) THEN Vec[k].Hash - (Vec[k].Hash % 2)
           ELSE ChainEnd(Vec[k].Hash)]
      Values[I \in 0..NB] ==
        IF I = 0 THEN <<>> ELSE Values[I - 1] \o ValuesOf(Group(I - 1))
  IN  [Buckets |-> [I \in 0..(NB - 1) |->
                      IF Group(I) = <<>> THEN 0
                      ELSE DynsymIndex[Group(I)[1].Body]],
       Values |-> Values[NB]]

\* GnuHashTableSection::writeTo(Buf)
GnuHashWriteTo ==
  /\ symState.gnuhash = 1
  /\ ~symState.gnuhashWritten
  /\ LET T == writeHashTable
     IN  GnuHashBuf' =
           [NBuckets |-> GnuHashTab.NBuckets,
            SymOffset |-> getNumSymbols(DynSymTab) - Len(GnuHashTab.Symbols),
            MaskWords |-> GnuHashTab.MaskWords,
            Shift2 |-> getShift2,
            Bloom |-> writeBloomFilter,
            Buckets |-> T.Buckets,
            Values |-> T.Values]
  /\ symState' = [symState EXCEPT !.gnuhashWritten = TRUE]
  /\ UNCHANGED <<SymKind, DynStrTab, DynSymTab, DynsymIndex, GnuHashTab,
                 HashTab, HashBuf, symtabVars>>
  /\ UNCHANGED notSymVars

(***************************************************************************)
(* HashTableSection (.hash)                                                *)
(***************************************************************************)
\* HashTableSection::finalizeContents()
HashFinalizeContents ==
  /\ symState.dynsym >= 1
  /\ symState.hash = 0
  /\ HashTab' =
       [Size |-> (2 + getNumSymbols(DynSymTab) + getNumSymbols(DynSymTab)) * 4]
  /\ symState' = [symState EXCEPT !.hash = 1]
  /\ UNCHANGED <<SymKind, DynStrTab, DynSymTab, DynsymIndex, GnuHashTab,
                 GnuHashBuf, HashBuf, symtabVars>>
  /\ UNCHANGED notSymVars

\* What writeTo stores in Chains[I]: the head of the bucket so far
\* (ChainLinkDropped: the chain cut off).
ChainLinkDropped(Buckets, Hash) == 0
ChainLink(Buckets, Hash) == Buckets[Hash]

RECURSIVE writeHashFrom(_, _, _)
\* The loop of HashTableSection::writeTo over the entries of .dynsym.  A
\* store behind the end of the table would fall outside the section; no
\* index of the model reaches it.
writeHashFrom(buf, Symbols, NumSymbols) ==
  IF Symbols = <<>> THEN buf
  ELSE LET Body == Head(Symbols).Symbol
           I == DynsymIndex[Body]
           Hash == hashSysV(getName(Body)) % NumSymbols
       IN  writeHashFrom(
             [buf EXCEPT !.Chains[I] = ChainLink(buf.Buckets, Hash),
                         !.Buckets[Hash] = I],
             Tail(Symbols), NumSymbols)

\* HashTableSection::writeTo(Buf) on a zeroed buffer
HashWriteTo ==
  /\ symState.hash = 1
  /\ ~symState.hashWritten
  /\ LET NumSymbols == getNumSymbols(DynSymTab)
     IN  HashBuf' =
           writeHashFrom([nbucket |-> NumSymbols, nchain |-> NumSymbols,
                          Buckets |-> [i \in 0..(NumSymbols - 1) |-> 0],
                          Chains |-> [i \in 0..(NumSymbols - 1) |-> 0]],
                         DynSymTab.Symbols, NumSymbols)
  /\ symState' = [symState EXCEPT !.hashWritten = TRUE]
  /\ UNCHANGED <<SymKind, DynStrTab, DynSymTab, DynsymIndex, GnuHashTab,
                 HashTab, GnuHashBuf, symtabVars>>
  /\ UNCHANGED notSymVars

(***************************************************************************)
(* EhFrameSection (.eh_frame)                                              *)
(***************************************************************************)
\* llvm::alignTo(Value, Align)
alignTo(Value, Align) == ((Value + Align - 1) \div Align) * Align

\* DWARF pointer encodings
DW_EH_PE_absptr == 0
DW_EH_PE_udata4 == 3
DW_EH_PE_pcrel == 16

\* this->OutSec->Addr of .eh_frame
EhOutSecAddr == 8192

\* The functions FDEs refer to: whether the symbol is a DefinedRegular with
\* a section, whether that section is live, and its address.
EhFunctions ==
  <<[Defined |-> TRUE, Live |-> TRUE, VA |-> 4096],
    [Defined |-> TRUE, Live |-> TRUE, VA |-> 4160],
    [Defined |-> TRUE, Live |-> FALSE, VA |-> 0],
    [Defined |-> FALSE, Live |-> FALSE, VA |-> 0]>>

\* A piece of an .eh_frame input section: its offset and size, the word
\* at its offset 4 (ID), what stands for its bytes (Data; for a CIE with
\* the FDE encoding they hold), and the target of its first relocation
\* (0: FirstRelocation is -1; 1..4: a function; 5: a personality routine).
Piece(InputOff, Size, ID, Data, Enc, RelTarget) ==
  [InputOff |-> InputOff, Size |-> Size, ID |-> ID, Data |-> Data,
   Enc |-> Enc, Target |-> RelTarget]

\* The .eh_frame input sections of the link, as split() cuts them.
\* 1: a CIE and two FDEs.  2: the same CIE, a live and a dead FDE.
\* 3: a CIE with a personality, its FDE, the CIE of 1 again with an FDE,
\* the end marker and a record behind it.  4: an FDE that refers to no
\* CIE.  5: no pieces.  6: as 2, the FDE without a relocation.
EhInputSections ==
  <<<<Piece(0, 20, 0, "A", DW_EH_PE_pcrel + DW_EH_PE_udata4, 0),
      Piece(20, 28, 24, "f", 0, 1),
      Piece(48, 20, 52, "g", 0, 2)>>,
    <<Piece(0, 20, 0, "A", DW_EH_PE_pcrel + DW_EH_PE_udata4, 0),
      Piece(20, 24, 24, "h", 0, 2),
      Piece(44, 20, 48, "i", 0, 3)>>,
    <<Piece(0, 24, 0, "B", DW_EH_PE_absptr, 5),
      Piece(24, 36, 28, "j", 0, 1),
      Piece(60, 20, 0, "A", DW_EH_PE_pcrel + DW_EH_PE_udata4, 0),
      Piece(80, 20, 24, "k", 0, 1),
      Piece(100, 4, 0, "", 0, 0),
      Piece(104, 20, 48, "l", 0, 2)>>,
    <<Piece(0, 20, 0, "A", DW_EH_PE_pcrel + DW_EH_PE_udata4, 0),
      Piece(20, 20, 8, "m", 0, 1)>>,
    <<>>,
    <<Piece(0, 20, 0, "A", DW_EH_PE_pcrel + DW_EH_PE_udata4, 0),
      Piece(20, 20, 24, "n", 0, 4),
      Piece(40, 20, 44, "o", 0, 0)>>>>

EhSectionIds == DOMAIN EhInputSections

\* Every piece, named by its section and its position in it.
EhPieceIds ==
  {id \in EhSectionIds \X (1..6) : id[2] <= Len(EhInputSections[id[1]])}

PieceOf(id) == EhInputSections[id[1]][id[2]]

EhFrameInit ==
  /\ EhSections = <<>>
  /\ Cies = <<>>
  /\ NumFdes = 0
  /\ OutputOff = [id \in EhPieceIds |-> NoIndex]
  /\ EhSize = 0
  /\ EhBuf = <<>>
  /\ Fdes = <<>>
  /\ ehState = "CREATED"
  /\ EhHdrBuf = <<>>
  /\ fdeLog = <<>>
  /\ ehHdrState = "CREATED"

\* The personality addCie finds: the target of the first relocation of the
\* CIE, or none.
Personality(id) == PieceOf(id).Target

\* EhFrameSection::addCie(Piece, Rels) on the records cies (CieMap keeps a
\* record for every key ever looked up, and each is in Cies): the records
\* and the position of the one found or created (pushCie: a record
\* created without the search).
pushCie(cies, id) ==
  [cies |-> Append(cies, [Piece |-> id, FdePieces |-> <<>>]),
   at |-> Len(cies) + 1]
addCie(cies, id) ==
  LET same == {c \in 1..Len(cies) :
                 /\ PieceOf(cies[c].Piece).Data = PieceOf(id).Data
                 /\ Personality(cies[c].Piece) = Personality(id)}
  IN  IF same # {} THEN [cies |-> cies, at |-> CHOOSE c \in same : TRUE]
      ELSE [cies |-> Append(cies, [Piece |-> id, FdePieces |-> <<>>]),
            at |-> Len(cies) + 1]

\* EhFrameSection::isFdeLive(Piece, Rels)
isFdeLive(id) ==
  LET T == PieceOf(id).Target
  IN  IF T = 0 THEN FALSE
      ELSE IF ~EhFunctions[T].Defined THEN FALSE
      ELSE EhFunctions[T].Live

RECURSIVE addSectionAux(_, _, _)
\* EhFrameSection::addSectionAux(Sec, Rels) from piece i of section sec on,
\* st being [cies, NumFdes, OffsetToCie, fatal] so far.
addSectionAux(sec, i, st) ==
  IF i > Len(EhInputSections[sec]) THEN st
  ELSE
    LET P == EhInputSections[sec][i]
    IN  IF P.Size = 4 THEN st
        ELSE IF P.ID = 0
          THEN LET r == addCie(st.cies, <<sec, i>>)
               IN  addSectionAux(sec, i + 1,
                     [st EXCEPT !.cies = r.cies,
                                !.OffsetToCie =
                                   [o \in DOMAIN @ \cup {P.InputOff} |->
                                      IF o = P.InputOff THEN r.at ELSE @[o]]])
        ELSE
          LET CieOffset == P.InputOff + 4 - P.ID
          IN  IF CieOffset \notin DOMAIN st.OffsetToCie
                THEN [st EXCEPT !.fatal = TRUE]
              ELSE IF ~isFdeLive(<<sec, i>>)
                THEN addSectionAux(sec, i + 1, st)
              ELSE addSectionAux(sec, i + 1,
                     [st EXCEPT
                        !.cies[st.OffsetToCie[CieOffset]].FdePieces =
                           Append(@, <<sec, i>>),
                        !.NumFdes = @ + 1])

\* EhFrameSection::addSection(C), C an input section not added yet
EhAddSection(sec) ==
  /\ ehState = "CREATED"
  /\ Len(EhSections) < MaxEhSections
  /\ \A k \in 1..Len(EhSections) : EhSections[k] # sec
  /\ EhSections' = Append(EhSections, sec)
  /\ LET st == addSectionAux(sec, 1,
                 [cies |-> Cies, NumFdes |-> NumFdes, OffsetToCie |-> <<>>,
                  fatal |-> FALSE])
     IN  /\ Cies' = st.cies
         /\ NumFdes' = st.NumFdes
         /\ ehState' = IF st.fatal THEN "FATAL" ELSE ehState
  /\ UNCHANGED <<OutputOff, EhSize, EhBuf, Fdes, ehHdrVars>>
  /\ UNCHANGED notEhVars

RECURSIVE LayoutFdes(_, _, _)
LayoutFdes(fdes, Off, out) ==
  IF fdes = <<>> THEN [Off |-> Off, out |-> out]
  ELSE LayoutFdes(Tail(fdes),
                  Off + alignTo(PieceOf(Head(fdes)).Size, Config.Wordsize),
                  [out EXCEPT ![Head(fdes)] = Off])

RECURSIVE LayoutCies(_, _, _)
\* The loop of EhFrameSection::finalizeContents over Cies
LayoutCies(cies, Off, out) ==
  IF cies = <<>> THEN [Off |-> Off, out |-> out]
  ELSE LET Cie == Head(cies)
           r == LayoutFdes(Cie.FdePieces,
                           Off + alignTo(PieceOf(Cie.Piece).Size,
                                         Config.Wordsize),
                           [out EXCEPT ![Cie.Piece] = Off])
       IN  LayoutCies(Tail(cies), r.Off, r.out)

\* EhFrameSection::finalizeContents()
EhFinalizeContents ==
  /\ ehState = "CREATED"
  /\ IF EhSize # 0 THEN UNCHANGED <<OutputOff, EhSize>>
     ELSE LET r == LayoutCies(Cies, 0, OutputOff)
          IN  /\ OutputOff' = r.out
              /\ EhSize' = IF r.Off = 0 THEN 4 ELSE r.Off
  /\ ehState' = "FINALIZED"
  /\ UNCHANGED <<EhSections, Cies, NumFdes, EhBuf, Fdes, ehHdrVars>>
  /\ UNCHANGED notEhVars

\* writeCieFde(Buf, D): the bytes copied and the size field fixed
writeCieFde(id) ==
  [Piece |-> id,
   Size |-> alignTo(PieceOf(id).Size, Config.Wordsize) - 4,
   ID |-> PieceOf(id).ID,
   Data |-> PieceOf(id).Data,
   Addr |-> 0]

\* What writeTo stores in the second word of the FDE at Off.
FdeCieFieldShort(Off, CieOffset) == Off - CieOffset
FdeCieField(Off, CieOffset) == Off + 4 - CieOffset

\* The records writeTo writes for one CieRecord.
WrittenOfCie(Cie) ==
  LET CieOffset == OutputOff[Cie.Piece]
  IN  {<<CieOffset, writeCieFde(Cie.Piece)>>} \cup
      {<<OutputOff[Cie.FdePieces[k]],
         [writeCieFde(Cie.FdePieces[k]) EXCEPT
            !.ID = FdeCieField(OutputOff[Cie.FdePieces[k]], CieOffset)]>> :
         k \in 1..Len(Cie.FdePieces)}

\* getFdeEncoding(Cie->Piece)
getFdeEncoding(id) == PieceOf(id).Enc

\* InputSectionBase::relocateAlloc on the address field of the FDE at Off,
\* Enc being the encoding of its CIE: the address of the function,
\* relative to the field for pcrel.  The field holds the value modulo 2^32;
\* the model keeps the representative that addFde's uint32_t gets back.
relocateAlloc(id, Off, Enc) ==
  LET VA == EhFunctions[PieceOf(id).Target].VA
  IN  IF BitAnd(Enc, 112) = DW_EH_PE_pcrel
        THEN VA - (EhOutSecAddr + Off + 8)
        ELSE VA

\* EhFrameSection::getFdePc(Buf, FdeOff, Enc), Addr being what readFdeAddr
\* reads at FdeOff + 8
getFdePc(Addr, FdeOff, Enc) ==
  IF BitAnd(Enc, 112) = DW_EH_PE_absptr THEN Addr
  ELSE Addr + EhOutSecAddr + (FdeOff + 8)

RECURSIVE FdesOfCies(_, _)
\* The calls EhFrameHdr->addFde(Pc, FdeVA) of writeTo, in order
FdesOfCies(cies, buf) ==
  IF cies = <<>> THEN <<>>
  ELSE LET Cie == Head(cies)
           Enc == getFdeEncoding(Cie.Piece)
       IN  [k \in 1..Len(Cie.FdePieces) |->
              LET Off == OutputOff[Cie.FdePieces[k]]
              IN  [Pc |-> getFdePc(buf[Off].Addr, Off, Enc),
                   FdeVA |-> EhOutSecAddr + Off]]
             \o FdesOfCies(Tail(cies), buf)

\* EhFrameSection::writeTo(Buf) on a zeroed buffer
EhWriteTo ==
  /\ ehState = "FINALIZED"
  /\ LET W == UNION {WrittenOfCie(Cies[c]) : c \in 1..Len(Cies)}
         offs == {w[1] : w \in W}
         copied == [o \in offs |-> (CHOOSE w \in W : w[1] = o)[2]]
         encOf == [o \in offs |->
                     LET c == CHOOSE c \in 1..Len(Cies) :
                                \E w \in WrittenOfCie(Cies[c]) : w[1] = o
                     IN  getFdeEncoding(Cies[c].Piece)]
         buf == [o \in offs |->
                   IF PieceOf(copied[o].Piece).ID = 0 THEN copied[o]
                   ELSE [copied[o] EXCEPT
                           !.Addr = relocateAlloc(copied[o].Piece, o, encOf[o])]]
     IN  /\ EhBuf' = buf
         /\ Fdes' = Fdes \o FdesOfCies(Cies, buf)
         /\ fdeLog' = fdeLog \o FdesOfCies(Cies, buf)
  /\ ehState' = "WRITTEN"
  /\ UNCHANGED <<EhSections, Cies, NumFdes, OutputOff, EhSize, EhHdrBuf,
                 ehHdrState>>
  /\ UNCHANGED notEhVars

(***************************************************************************)
(* EhFrameHeader (.eh_frame_hdr)                                           *)
(***************************************************************************)
\* this->getVA() of .eh_frame_hdr
EhHdrVA == 8000

\* The addresses addFde is called with when called on its own.
FdePcs == {4096, 4160, 8192}
FdeVAs == {8216, 8240}

\* EhFrameHeader::addFde(Pc, FdeVA).  The parameters are uint32_t; the
\* addresses of the model are below 2^31 and pass unchanged.
EhHdrAddFde(Pc, FdeVA) ==
  /\ ehHdrState = "CREATED"
  /\ Len(Fdes) < MaxFdes
  /\ Fdes' = Append(Fdes, [Pc |-> Pc, FdeVA |-> FdeVA])
  /\ fdeLog' = Append(fdeLog, [Pc |-> Pc, FdeVA |-> FdeVA])
  /\ UNCHANGED <<EhSections, Cies, NumFdes, OutputOff, EhSize, EhBuf, ehState,
                 EhHdrBuf, ehHdrState>>
  /\ UNCHANGED notEhVars

\* std::unique(V, Eq) with the erase: of every run of elements with equal
\* Pc the first is kept (keep_all: none erased).
keep_all(V) == V
unique(V) ==
  LET keep == {i \in 1..Len(V) : i = 1 \/ V[i - 1].Pc # V[i].Pc}
  IN  [k \in 1..Cardinality(keep) |->
         V[CHOOSE i \in keep : Cardinality({j \in keep : j < i}) = k - 1]]

\* The FDE list as the sort and the uniquing of writeTo leave it.
SortedUniqueFdes ==
  LET key == [e \in {Fdes[i] : i \in 1..Len(Fdes)} |-> e.Pc]
  IN  unique(stable_sort(Fdes, key))

\* EhFrameHeader::writeTo(Buf).  The words are written modulo 2^32; the
\* model keeps the signed representative.
EhHdrWriteTo ==
  /\ ehHdrState = "CREATED"
  /\ ehState \in {"CREATED", "WRITTEN"}
  /\ Fdes' = SortedUniqueFdes
  /\ EhHdrBuf' =
       [Version |-> 1,
        EhFramePtrEnc |-> 27,
        FdeCountEnc |-> 3,
        TableEnc |-> 59,
        EhFramePtr |-> EhOutSecAddr - EhHdrVA - 4,
        FdeCount |-> Len(SortedUniqueFdes),
        Table |-> [i \in 1..Len(SortedUniqueFdes) |->
                     [Pc |-> SortedUniqueFdes[i].Pc - EhHdrVA,
                      FdeVA |-> SortedUniqueFdes[i].FdeVA - EhHdrVA]]]
  /\ ehHdrState' = "WRITTEN"
  /\ UNCHANGED <<EhSections, Cies, NumFdes, OutputOff, EhSize, EhBuf, ehState,
                 fdeLog>>
  /\ UNCHANGED notEhVars

\* EhFrameHeader::getSize()
EhHdrGetSize == 12 + NumFdes * 8

\* EhFrameHeader::writeTo(Buf) in a link: .eh_frame has been written by
\* then and has passed its FDEs to addFde.
EhHdrWriteToAfterEhFrame ==
  /\ ehState = "WRITTEN"
  /\ EhHdrWriteTo

(***************************************************************************)
(* DynamicSection (.dynamic)                                               *)
(***************************************************************************)
\* The dynamic tags (llvm/BinaryFormat/ELF.h)
DT ==
  [NULL |-> 0, NEEDED |-> 1, PLTRELSZ |-> 2, PLTGOT |-> 3, HASH |-> 4,
   STRTAB |-> 5, SYMTAB |-> 6, RELA |-> 7, RELASZ |-> 8, RELAENT |-> 9,
   STRSZ |-> 10, SYMENT |-> 11, INIT |-> 12, FINI |-> 13, SONAME |-> 14,
   RPATH |-> 15, REL |-> 17, RELSZ |-> 18, RELENT |-> 19, PLTREL |-> 20,
   DEBUG |-> 21, TEXTREL |-> 22, JMPREL |-> 23, INIT_ARRAY |-> 25,
   FINI_ARRAY |-> 26, INIT_ARRAYSZ |-> 27, FINI_ARRAYSZ |-> 28,
   RUNPATH |-> 29, FLAGS |-> 30, PREINIT_ARRAY |-> 32,
   PREINIT_ARRAYSZ |-> 33, GNU_HASH |-> 1879047925, VERSYM |-> 1879048176,
   RELACOUNT |-> 1879048185, RELCOUNT |-> 1879048186,
   FLAGS_1 |-> 1879048187, VERDEF |-> 1879048188, VERDEFNUM |-> 1879048189,
   VERNEED |-> 1879048190, VERNEEDNUM |-> 1879048191,
   MIPS_RLD_VERSION |-> 1879048193, MIPS_FLAGS |-> 1879048197,
   MIPS_BASE_ADDRESS |-> 1879048198, MIPS_LOCAL_GOTNO |-> 1879048202,
   MIPS_SYMTABNO |-> 1879048209, MIPS_GOTSYM |-> 1879048211,
   MIPS_RLD_MAP |-> 1879048214, MIPS_PLTGOT |-> 1879048242,
   AUXILIARY |-> 2147483645]

\* The flag bits of DT_FLAGS and DT_FLAGS_1; the bits of one word are
\* distinct, so or-ing them is adding them.
DF == [SYMBOLIC |-> 2, BIND_NOW |-> 8, ORIGIN |-> 1]
DF_1 == [NOW |-> 1, NODELETE |-> 8, NOOPEN |-> 64, ORIGIN |-> 128]

\* A link with nothing optional: what .dynamic reads of Config, of the
\* symbol table and of the sizes of the other sections.
PlainDynInputs ==
  [AuxiliaryList |-> <<>>, Rpath |-> <<>>, EnableNewDtags |-> FALSE,
   Needed |-> <<>>, SoName |-> <<>>, Bsymbolic |-> FALSE, ZNodelete |-> FALSE,
   ZNodlopen |-> FALSE, ZNow |-> FALSE, ZOrigin |-> FALSE, Shared |-> FALSE,
   Relocatable |-> FALSE, ZRodynamic |-> FALSE,
   ZCombreloc |-> TRUE, ZText |-> TRUE, RelaDynSize |-> 0,
   NumRelativeRels |-> 0, RelaPltSize |-> 0, HashTab |-> FALSE,
   PreinitArray |-> FALSE, InitArray |-> FALSE, FiniArray |-> FALSE,
   Init |-> FALSE, Fini |-> FALSE, NeedNum |-> 0, VerDef |-> FALSE,
   VersionDefinitions |-> 0, ImageBase |-> 65536, MipsRldMap |-> FALSE]

\* A link with everything optional.
RichDynInputs ==
  [PlainDynInputs EXCEPT
     !.AuxiliaryList = <<<<120>>, <<121>>>>, !.Rpath = <<114>>,
     !.Needed = <<<<108, 49>>, <<108, 50>>>>, !.SoName = <<115>>,
     !.Bsymbolic = TRUE, !.ZNodelete = TRUE, !.ZNodlopen = TRUE,
     !.ZOrigin = TRUE, !.ZText = FALSE, !.NumRelativeRels = 1,
     !.HashTab = TRUE, !.PreinitArray = TRUE, !.InitArray = TRUE,
     !.FiniArray = TRUE, !.Init = TRUE, !.Fini = TRUE, !.NeedNum = 1,
     !.VerDef = TRUE, !.VersionDefinitions = 2, !.MipsRldMap = TRUE]

\* The links .dynamic is followed in.
DynInputsSet ==
  {[base EXCEPT !.ZNow = now, !.Shared = shared, !.EnableNewDtags = now,
                !.RelaDynSize = IF dyn THEN 48 ELSE 0,
                !.RelaPltSize = IF plt THEN 24 ELSE 0] :
     base \in {PlainDynInputs, RichDynInputs},
     now \in BOOLEAN, shared \in BOOLEAN, dyn \in BOOLEAN, plt \in BOOLEAN}

\* An entry of .dynamic: add({Tag, ...}), Kind telling what Val is
DynEntry(Tag, Kind, Val) == [Tag |-> Tag, Kind |-> Kind, Val |-> Val]

RECURSIVE AddStrings(_, _, _, _)
\* add({Tag, InX::DynStrTab->addString(S)}) for every S of list: the string
\* table and the entries as the loop leaves them
AddStrings(st, Tag, list, i) ==
  IF i > Len(list) THEN st
  ELSE LET r == addString(st.tab, list[i], TRUE)
       IN  AddStrings([tab |-> r.tab,
                       Entries |-> Append(st.Entries,
                                          DynEntry(Tag, "PlainInt", r.Ret))],
                      Tag, list, i + 1)

\* The entries of list, those left out whose condition does not hold.
Added(list) ==
  LET kept == SelectSeq(list, LAMBDA x : x.If)
  IN  [i \in 1..Len(kept) |-> kept[i].E]

\* DynamicSection::addEntries() on string table tab, I being the inputs
addEntries(tab, I) ==
  LET s1 == AddStrings([tab |-> tab, Entries |-> <<>>], DT.AUXILIARY,
                       I.AuxiliaryList, 1)
      s2 == AddStrings(s1, IF I.EnableNewDtags THEN DT.RUNPATH ELSE DT.RPATH,
                       IF I.Rpath # <<>> THEN <<I.Rpath>> ELSE <<>>, 1)
      s3 == AddStrings(s2, DT.NEEDED, I.Needed, 1)
      s4 == AddStrings(s3, DT.SONAME,
                       IF I.SoName # <<>> THEN <<I.SoName>> ELSE <<>>, 1)
      DtFlags == (IF I.Bsymbolic THEN DF.SYMBOLIC ELSE 0)
                   + (IF I.ZNow THEN DF.BIND_NOW ELSE 0)
                   + (IF I.ZOrigin THEN DF.ORIGIN ELSE 0)
      DtFlags1 == (IF I.ZNodelete THEN DF_1.NODELETE ELSE 0)
                    + (IF I.ZNodlopen THEN DF_1.NOOPEN ELSE 0)
                    + (IF I.ZNow THEN DF_1.NOW ELSE 0)
                    + (IF I.ZOrigin THEN DF_1.ORIGIN ELSE 0)
  IN  [tab |-> s4.tab,
       Entries |-> s4.Entries \o Added(<<
         [If |-> DtFlags # 0, E |-> DynEntry(DT.FLAGS, "PlainInt", DtFlags)],
         [If |-> DtFlags1 # 0,
          E |-> DynEntry(DT.FLAGS_1, "PlainInt", DtFlags1)],
         [If |-> ~I.Shared /\ ~I.Relocatable /\ ~I.ZRodynamic,
          E |-> DynEntry(DT.DEBUG, "PlainInt", 0)]>>)]

\* MipsGotSection::getFirstGlobalEntry(): the symbol, or 0 for nullptr
getFirstGlobalEntry ==
  IF Gots # <<>> /\ Gots[1].Global # <<>> THEN Gots[1].Global[1].key
  ELSE IF Gots # <<>> /\ Gots[1].Relocs # <<>> THEN Gots[1].Relocs[1].key
  ELSE 0

\* MipsGotSection::getLocalEntriesNum()
getLocalEntriesNum ==
  IF Gots = <<>> THEN HeaderEntriesNum
  ELSE HeaderEntriesNum + getPageEntriesNum(Gots[1]) + Len(Gots[1].Local16)

\* sizeof(Elf_Rela) or sizeof(Elf_Rel), and sizeof(Elf_Sym)
RelEntSize(IsRela) ==
  IF Config.Is64 THEN (IF IsRela THEN 24 ELSE 16)
  ELSE (IF IsRela THEN 12 ELSE 8)
SymEntSize == IF Config.Is64 THEN 24 ELSE 16

\* The entries DynamicSection::finalizeContents() adds, in order, in a
\* link of which it reads I.
FinalEntriesOf(I) ==
  LET IsRela == Config.IsRela
      Mips == Config.EMachineMips
      HasDyn == I.RelaDynSize > 0
      HasPlt == I.RelaPltSize > 0
      HasVerNeed == I.NeedNum # 0
      B == getFirstGlobalEntry
  IN  Added(<<
    [If |-> HasDyn,
     E |-> DynEntry(IF IsRela THEN DT.RELA ELSE DT.REL, "InSecAddr", "RelaDyn")],
    [If |-> HasDyn,
     E |-> DynEntry(IF IsRela THEN DT.RELASZ ELSE DT.RELSZ, "PlainInt",
                    I.RelaDynSize)],
    [If |-> HasDyn,
     E |-> DynEntry(IF IsRela THEN DT.RELAENT ELSE DT.RELENT, "PlainInt",
                    RelEntSize(IsRela))],
    [If |-> HasDyn /\ ~Mips /\ I.ZCombreloc /\ I.NumRelativeRels # 0,
     E |-> DynEntry(IF IsRela THEN DT.RELACOUNT ELSE DT.RELCOUNT, "PlainInt",
                    I.NumRelativeRels)],
    [If |-> HasPlt, E |-> DynEntry(DT.JMPREL, "InSecAddr", "RelaPlt")],
    [If |-> HasPlt, E |-> DynEntry(DT.PLTRELSZ, "PlainInt", I.RelaPltSize)],
    [If |-> HasPlt,
     E |-> DynEntry(IF Mips THEN DT.MIPS_PLTGOT ELSE DT.PLTGOT, "InSecAddr",
                    "GotPlt")],
    [If |-> HasPlt,
     E |-> DynEntry(DT.PLTREL, "PlainInt",
                    IF IsRela THEN DT.RELA ELSE DT.REL)],
    [If |-> TRUE, E |-> DynEntry(DT.SYMTAB, "InSecAddr", "DynSymTab")],
    [If |-> TRUE, E |-> DynEntry(DT.SYMENT, "PlainInt", SymEntSize)],
    [If |-> TRUE, E |-> DynEntry(DT.STRTAB, "InSecAddr", "DynStrTab")],
    [If |-> TRUE, E |-> DynEntry(DT.STRSZ, "PlainInt", DynStrTab.Size)],
    [If |-> ~I.ZText, E |-> DynEntry(DT.TEXTREL, "PlainInt", 0)],
    [If |-> Config.HasGnuHashTab,
     E |-> DynEntry(DT.GNU_HASH, "InSecAddr", "GnuHashTab")],
    [If |-> I.HashTab, E |-> DynEntry(DT.HASH, "InSecAddr", "HashTab")],
    [If |-> I.PreinitArray,
     E |-> DynEntry(DT.PREINIT_ARRAY, "SecAddr", "PreinitArray")],
    [If |-> I.PreinitArray,
     E |-> DynEntry(DT.PREINIT_ARRAYSZ, "SecSize", "PreinitArray")],
    [If |-> I.InitArray,
     E |-> DynEntry(DT.INIT_ARRAY, "SecAddr", "InitArray")],
    [If |-> I.InitArray,
     E |-> DynEntry(DT.INIT_ARRAYSZ, "SecSize", "InitArray")],
    [If |-> I.FiniArray,
     E |-> DynEntry(DT.FINI_ARRAY, "SecAddr", "FiniArray")],
    [If |-> I.FiniArray,
     E |-> DynEntry(DT.FINI_ARRAYSZ, "SecSize", "FiniArray")],
    [If |-> I.Init, E |-> DynEntry(DT.INIT, "SymAddr", "Init")],
    [If |-> I.Fini, E |-> DynEntry(DT.FINI, "SymAddr", "Fini")],
    [If |-> HasVerNeed \/ I.VerDef,
     E |-> DynEntry(DT.VERSYM, "InSecAddr", "VerSym")],
    [If |-> I.VerDef, E |-> DynEntry(DT.VERDEF, "InSecAddr", "VerDef")],
    [If |-> I.VerDef,
     E |-> DynEntry(DT.VERDEFNUM, "PlainInt", I.VersionDefinitions + 1)],
    [If |-> HasVerNeed, E |-> DynEntry(DT.VERNEED, "InSecAddr", "VerNeed")],
    [If |-> HasVerNeed, E |-> DynEntry(DT.VERNEEDNUM, "PlainInt", I.NeedNum)],
    [If |-> Mips, E |-> DynEntry(DT.MIPS_RLD_VERSION, "PlainInt", 1)],
    [If |-> Mips, E |-> DynEntry(DT.MIPS_FLAGS, "PlainInt", 2)],
    [If |-> Mips,
     E |-> DynEntry(DT.MIPS_BASE_ADDRESS, "PlainInt", I.ImageBase)],
    [If |-> Mips,
     E |-> DynEntry(DT.MIPS_SYMTABNO, "PlainInt", getNumSymbols(DynSymTab))],
    [If |-> Mips,
     E |-> DynEntry(DT.MIPS_LOCAL_GOTNO, "PlainInt", getLocalEntriesNum)],
    [If |-> Mips,
     E |-> DynEntry(DT.MIPS_GOTSYM, "PlainInt",
                    IF B # 0 THEN DynsymIndex[B]
                    ELSE getNumSymbols(DynSymTab))],
    [If |-> Mips, E |-> DynEntry(DT.PLTGOT, "InSecAddr", "MipsGot")],
    [If |-> Mips /\ I.MipsRldMap,
     E |-> DynEntry(DT.MIPS_RLD_MAP, "InSecAddr", "MipsRldMap")]>>)

FinalEntries == FinalEntriesOf(DynInputs)

\* this->Entsize of .dynamic
DynEntsize == IF Config.Is64 THEN 16 ELSE 8

\* Before the constructor of .dynamic has run.
DynamicIdle ==
  /\ DynInputs = PlainDynInputs
  /\ DynEntries = <<>>
  /\ DynSize = 0
  /\ DynBuf = <<>>
  /\ dynState = "CREATED"

\* The entries of .dynamic, of which finalizeContents counts the size
\* (EntriesButOne: the DT_NULL left out of the size).
EntriesButOne(n) == n
EntriesAndNull(n) == n + 1

\* DynamicSection::finalizeContents()
DynFinalizeContents ==
  /\ dynState \in {"CREATED", "FINALIZED"}
  /\ IF DynSize # 0 THEN UNCHANGED <<DynEntries, DynSize>>
     ELSE /\ DynEntries' = DynEntries \o FinalEntries
          /\ DynSize' = EntriesAndNull(Len(DynEntries')) * DynEntsize
  /\ dynState' = "FINALIZED"
  /\ UNCHANGED <<DynInputs, DynBuf>>
  /\ UNCHANGED notDynVars

\* DynamicSection::writeTo(Buf).  The addresses and sizes of the output
\* sections are the writer's; d_un names the one written.
DynWriteTo ==
  /\ dynState = "FINALIZED"
  /\ DynBuf' =
       [i \in 1..(Len(DynEntries) + 1) |->
          IF i <= Len(DynEntries)
            THEN [d_tag |-> DynEntries[i].Tag,
                  d_un |-> <<DynEntries[i].Kind, DynEntries[i].Val>>]
            ELSE [d_tag |-> DT.NULL, d_un |-> <<"PlainInt", 0>>]]
  /\ dynState' = "WRITTEN"
  /\ UNCHANGED <<DynInputs, DynEntries, DynSize>>
  /\ UNCHANGED notDynVars

(***************************************************************************)
(* VersionDefinitionSection (.gnu.version_d) and the finalize pass         *)
(***************************************************************************)
\* Config->OutputFile and the names of Config->VersionDefinitions
OutputFile == <<111>>
VersionNames == <<<<86, 49>>, <<86, 50>>, <<86, 51>>>>

\* getFileDefName()
getFileDefName(I) == IF I.SoName # <<>> THEN I.SoName ELSE OutputFile

\* Before the finalize pass reaches .gnu.version_d.
VerDefIdle ==
  /\ VerDefNameOffs = <<>>
  /\ verDefState = "CREATED"

RECURSIVE AddNames(_, _, _)
\* InX::DynStrTab->addString(list[i]) for i, i + 1, ...: the string table
\* and the offsets returned, st being [tab, Offs] so far
AddNames(st, list, i) ==
  IF i > Len(list) THEN st
  ELSE LET r == addString(st.tab, list[i], TRUE)
       IN  AddNames([tab |-> r.tab, Offs |-> Append(st.Offs, r.Ret)], list,
                    i + 1)

\* VersionDefinitionSection::finalizeContents(), run once by the finalize
\* pass of a link that has version definitions.  Link and Info of the
\* output section are the writer's.
VerDefFinalizeContents ==
  /\ DynInputs.VerDef
  /\ verDefState = "CREATED"
  /\ LET names == <<getFileDefName(DynInputs)>>
                    \o SubSeq(VersionNames, 1, DynInputs.VersionDefinitions)
         st == AddNames([tab |-> DynStrTab, Offs |-> <<>>], names, 1)
     IN  /\ DynStrTab' = st.tab
         /\ VerDefNameOffs' = st.Offs
  /\ verDefState' = "FINALIZED"
  /\ UNCHANGED <<SymKind, DynSymTab, DynsymIndex, GnuHashTab, HashTab,
                 GnuHashBuf, HashBuf, symState, symtabVars>>
  /\ UNCHANGED notSymVerDefVars

\* The finalize pass runs leaves first: when it reaches .dynamic, the
\* sections .dynamic reads, .dynsym and .gnu.version_d with the strings
\* they put into .dynstr, have been finalized (NoDependencies: in any
\* order).
NoDependencies == TRUE
DependenciesFinalized ==
  /\ symState.dynsym >= 1
  /\ DynInputs.VerDef => verDefState = "FINALIZED"

\* DynamicSection::finalizeContents() as the finalize pass runs it
DynFinalizeInPass ==
  /\ DependenciesFinalized
  /\ DynFinalizeContents

(***************************************************************************)
(* RelocationSection: addReloc and writeTo                                 *)
(***************************************************************************)
\* The input sections whose relocations are RELA (AreRelocsRela).
RelaInputSections == {"in.rela"}

\* The relocations the sections of a link register one by one: RELATIVE
\* ones against the address of a symbol or against no symbol, others
\* against a symbol of .dynsym.
RelocInputs ==
  {[Type |-> "RelativeRel", InputSec |-> "in.rela", UseSymVA |-> TRUE,
    Sym |-> 1],
   [Type |-> "RelativeRel", InputSec |-> "in.rel", UseSymVA |-> FALSE,
    Sym |-> 0],
   [Type |-> "GotRel", InputSec |-> "in.rel", UseSymVA |-> FALSE, Sym |-> 1],
   [Type |-> "GotRel", InputSec |-> "in.rela", UseSymVA |-> FALSE, Sym |-> 2],
   [Type |-> "SymbolicRel", InputSec |-> "in.rel", UseSymVA |-> FALSE,
    Sym |-> 3]}

\* RelocationSection::addReloc(Reloc) on the state st = [Relocs,
\* NumRelativeRelocs, Hack] (addRelocCountingAll: every relocation counted)
addRelocCountingAll(st, Reloc) ==
  [Relocs |-> Append(st.Relocs, Reloc),
   NumRelativeRelocs |-> st.NumRelativeRelocs + 1,
   Hack |-> IF ~Config.IsRela /\ Reloc.InputSec \in RelaInputSections
              THEN Append(st.Hack, Reloc) ELSE st.Hack]
addReloc(st, Reloc) ==
  [Relocs |-> Append(st.Relocs, Reloc),
   NumRelativeRelocs |->
     st.NumRelativeRelocs + (IF Reloc.Type = "RelativeRel" THEN 1 ELSE 0),
   Hack |-> IF ~Config.IsRela /\ Reloc.InputSec \in RelaInputSections
              THEN Append(st.Hack, Reloc) ELSE st.Hack]

\* RelocationSection::addReloc(Reloc) called on In<ELFT>::RelaDyn
RelaAddReloc(r) ==
  /\ relaState = "CREATED"
  /\ Len(Relocs) < MaxRelocs
  /\ LET st == addReloc([Relocs |-> Relocs,
                         NumRelativeRelocs |-> NumRelativeRelocs,
                         Hack |-> FreeBSDMipsRelocationsHack],
                        DynamicReloc(r.Type, r.InputSec, 8 * Len(Relocs),
                                     r.UseSymVA, r.Sym, 0))
     IN  /\ Relocs' = st.Relocs
         /\ NumRelativeRelocs' = st.NumRelativeRelocs
         /\ FreeBSDMipsRelocationsHack' = st.Hack
  /\ UNCHANGED <<RelaSort, RelaBuf, relaState>>
  /\ UNCHANGED notRelaDynVars

\* DynamicReloc::getSymIndex() (NoSymIndex: no symbol ever)
NoSymIndex(Rel) == 0
getSymIndex(Rel) ==
  IF Rel.Sym # 0 /\ ~Rel.UseSymVA THEN DynsymIndex[Rel.Sym] ELSE 0

\* DynamicReloc::getAddend(): the address it is taken from, by name (the
\* addresses are the writer's), and the addend
getAddend(Rel) ==
  IF Rel.UseSymVA THEN <<"SymVA", Rel.Sym, Rel.Addend>>
  ELSE IF Rel.OutputSec = 0 THEN <<"None", 0, Rel.Addend>>
  ELSE <<"MipsPageAddr", Rel.OutputSec, Rel.Addend>>

\* DynamicReloc::getOffset(): the section and the offset in it
getOffset(Rel) == <<Rel.InputSec, Rel.OffsetInSec>>

\* The Elf_Rel or Elf_Rela writeTo fills in for Rel.
WrittenReloc(Rel) ==
  [r_offset |-> getOffset(Rel),
   r_sym |-> getSymIndex(Rel),
   r_type |-> Rel.Type,
   r_addend |-> IF Config.IsRela THEN getAddend(Rel) ELSE <<"None", 0, 0>>]

\* The order compRelocations sorts by, as a key: RELATIVE first, then by
\* symbol index (SymbolKeyLess: the symbol index left out).  Symbol
\* indices are below 2^20.
SymbolKeyLess(R) == IF R.r_type = "RelativeRel" THEN 0 ELSE 1048576
compRelocationsKey(R) ==
  (IF R.r_type = "RelativeRel" THEN 0 ELSE 1048576) + R.r_sym

\* RelocationSection::writeTo(Buf).  The writer writes the sections after
\* it has finalized them, .dynsym included.
RelaWriteTo ==
  /\ relaState = "CREATED"
  /\ symState.dynsym >= 1
  /\ LET T == [i \in 1..Len(Relocs) |-> WrittenReloc(Relocs[i])]
         key == [R \in {T[i] : i \in 1..Len(T)} |-> compRelocationsKey(R)]
     IN  RelaBuf' = IF RelaSort THEN stable_sort(T, key) ELSE T
  /\ relaState' = "WRITTEN"
  /\ UNCHANGED <<Relocs, NumRelativeRelocs, FreeBSDMipsRelocationsHack,
                 RelaSort>>
  /\ UNCHANGED notRelaDynVars

(***************************************************************************)
(* CheriCapRelocsSection                                                   *)
(***************************************************************************)
\* sizeof(InMemoryCapRelocEntry): the five 64-bit fields writeTo fills in
RelocSize == 5 * 8
CapEntsize == RelocSize

\* The symbols __cap_relocs relocations refer to: what processSection asks
\* of them.  Section is TRUE when a DefinedRegular lies in an input section.
CapSymbols ==
  <<[Kind |-> "Shared", File |-> "libc.so", IsSection |-> FALSE],
    [Kind |-> "DefinedRegular", File |-> "a.o", IsSection |-> FALSE],
    [Kind |-> "DefinedRegular", File |-> "a.o", IsSection |-> TRUE],
    [Kind |-> "Undefined", File |-> "a.o", IsSection |-> FALSE],
    [Kind |-> "DefinedRegular", File |-> "b.o", IsSection |-> TRUE]>>

\* What writeTo asks of the same symbols: the address of the definition
\* (for the symbol of the shared library, of its copy if it has one), the
\* size, whether the symbol is a function, and the size of the output
\* section the symbol lies in (OutSec FALSE: it lies in none) with the
\* Offset in it that a DefinedCommon has.  Symbol 2 is a function of 0x20
\* bytes at 0x400100; the others have no size.
CapSymbolValues ==
  <<[VA |-> 4325376, Size |-> 0, IsFunc |-> FALSE, OutSec |-> FALSE,
     OutSecSize |-> 0, Offset |-> 0],
    [VA |-> 4194560, Size |-> 32, IsFunc |-> TRUE, OutSec |-> TRUE,
     OutSecSize |-> 8192, Offset |-> 0],
    [VA |-> 4259840, Size |-> 0, IsFunc |-> FALSE, OutSec |-> TRUE,
     OutSecSize |-> 4096, Offset |-> 0],
    [VA |-> 0, Size |-> 0, IsFunc |-> FALSE, OutSec |-> FALSE,
     OutSecSize |-> 0, Offset |-> 0],
    [VA |-> 4263936, Size |-> 0, IsFunc |-> FALSE, OutSec |-> TRUE,
     OutSecSize |-> 4096, Offset |-> 0]>>

Rela(off, type, sym, addend) ==
  [r_offset |-> off, Type |-> type, Sym |-> sym, r_addend |-> addend]

\* One record of a __cap_relocs input: its two relocations.
CapRecord(off, locSym, locAddend, tgtSym, tgtAddend) ==
  <<Rela(off, "R_MIPS_64", locSym, locAddend),
    Rela(off + 8, "R_MIPS_64", tgtSym, tgtAddend)>>

\* The words at +16 and +24 of every input record (offset and size).
RawInput == [offset |-> 4, size |-> 32]

\* The __cap_relocs input sections of the links modelled: well-formed
\* ones, and one for every way addSection and processSection reject.
CapInputSections ==
  [good |-> [File |-> "a.o", Size |-> 40,
             Relas |-> CapRecord(0, 3, 16, 2, 0)],
   two |-> [File |-> "a.o", Size |-> 80,
            Relas |-> CapRecord(0, 3, 32, 1, 0) \o CapRecord(40, 3, 48, 4, 0)],
   again |-> [File |-> "a.o", Size |-> 40,
              Relas |-> CapRecord(0, 3, 16, 1, 8)],
   empty |-> [File |-> "a.o", Size |-> 0, Relas |-> <<>>],
   ragged |-> [File |-> "a.o", Size |-> 60,
               Relas |-> CapRecord(0, 3, 64, 2, 0)],
   short |-> [File |-> "a.o", Size |-> 80,
              Relas |-> CapRecord(0, 3, 72, 2, 0)],
   odd |-> [File |-> "a.o", Size |-> 40,
            Relas |-> CapRecord(0, 3, 80, 2, 0)
                        \o <<Rela(16, "R_MIPS_64", 2, 0)>>],
   corrupt |-> [File |-> "a.o", Size |-> 80,
                Relas |-> CapRecord(0, 3, 88, 2, 0)
                            \o <<Rela(40, "R_MIPS_64", 3, 96),
                                 Rela(56, "R_MIPS_64", 2, 0)>>],
   foreign |-> [File |-> "a.o", Size |-> 40,
                Relas |-> CapRecord(0, 5, 16, 2, 0)],
   typed |-> [File |-> "a.o", Size |-> 40,
              Relas |-> <<Rela(0, "R_MIPS_32", 3, 104),
                          Rela(8, "R_MIPS_64", 2, 0)>>]]

CapSectionNames == DOMAIN CapInputSections

CapRelocsIdle ==
  /\ RelocsMap = <<>>
  /\ CapErrors = <<>>
  /\ CapWarnings = <<>>
  /\ CapAdded = <<>>
  /\ CapProcessed = <<>>
  /\ NDEBUG = TRUE
  /\ NeedsCopy = [sym \in 1..Len(CapSymbols) |-> FALSE]
  /\ CapBuf = <<>>
  /\ capState = "CREATED"

\* SymbolBody::isPreemptible(): the definition of the symbol may be
\* overridden at load time by another shared object.  That is so for a
\* symbol of a shared library unless it has a copy relocation, which
\* makes the copy in the output its definition, and for no symbol these
\* links define themselves.
isPreemptible(sym) == CapSymbols[sym].Kind = "Shared" /\ ~NeedsCopy[sym]

\* TargetNeedsDynReloc after the switch over TargetSym.kind() of
\* processSection (NoKindNeedsDynReloc: SharedKind like the other kinds).
NoKindNeedsDynReloc(TargetSym) == FALSE
KindNeedsDynReloc(TargetSym) == CapSymbols[TargetSym].Kind = "Shared"

CheriCapRelocLocation(sym, off, dyn) ==
  [BaseSym |-> sym, Offset |-> off, NeedsDynReloc |-> dyn]

CheriCapReloc(target, symOff, off, size, dyn) ==
  [Target |-> target, TargetSymbolOffset |-> symOff, Offset |-> off,
   Size |-> size, NeedsDynReloc |-> dyn]

\* CheriCapRelocsSection::getSize(): Entsize for every record of RelocsMap
CapGetSize(Map) == Len(Map) * CapEntsize

\* CurrentEntryOffset of processSection: the offset of the record to come,
\* taken from RelocsMap before the insert (EntryOffsetAfterInsert: taken
\* once the record is in).
EntryOffsetAfterInsert(Map) == (Len(Map) + 1) * RelocSize
EntryOffset(Map) == Len(Map) * RelocSize

\* One turn of the loop of processSection over the pair of relocations at
\* i and i + 1 of S, on st = [Map, Rela, Errors, Warnings, Stop, Abort]:
\* Stop is set by a return, Abort by a failed assert.
ProcessPair(st, S, i) ==
  LET LocationRel == S.Relas[i]
      TargetRel == S.Relas[i + 1]
      LocationSym == LocationRel.Sym
      TargetSym == TargetRel.Sym
      err(e) == [st EXCEPT !.Errors = Append(@, e)]
      LocNeedsDynReloc == Config.Pic \/ Config.Pie
      TargetNeedsDynReloc ==
        KindNeedsDynReloc(TargetSym) \/ Config.Pic \/ Config.Pie
      CurrentEntryOffset == EntryOffset(st.Map)
      Key == CheriCapRelocLocation(LocationSym, LocationRel.r_addend,
                                   LocNeedsDynReloc)
      Val == CheriCapReloc(TargetSym, TargetRel.r_addend, RawInput.offset,
                           RawInput.size, TargetNeedsDynReloc)
      inserted == [st EXCEPT !.Map = Append(@, [Key |-> Key, Val |-> Val])]
      withLoc ==
        IF LocNeedsDynReloc
          THEN [inserted EXCEPT !.Rela =
                  addReloc(@, DynamicReloc("RelativeRel", "CapRelocs",
                                           CurrentEntryOffset, TRUE,
                                           LocationSym,
                                           LocationRel.r_addend))]
          ELSE inserted
      withTarget ==
        IF TargetNeedsDynReloc
          THEN [withLoc EXCEPT !.Rela =
                  addReloc(@, DynamicReloc("RelativeRel", "CapRelocs",
                                           CurrentEntryOffset + 8, FALSE,
                                           TargetSym, 0))]
          ELSE withLoc
  IN  IF LocationRel.r_offset % CapEntsize # 0
        THEN [err("offset not a multiple of Entsize") EXCEPT !.Stop = TRUE]
      ELSE IF TargetRel.r_offset # LocationRel.r_offset + 8
        THEN [err("target does not follow location") EXCEPT !.Stop = TRUE]
      ELSE IF LocationRel.r_addend < 0
        THEN [err("addend is less than zero") EXCEPT !.Stop = TRUE]
      ELSE IF LocationRel.r_offset + CapEntsize > S.Size /\ ~NDEBUG
        THEN [st EXCEPT !.Abort = TRUE]
      ELSE IF LocationRel.Type # "R_MIPS_64"
        THEN err("expected R_MIPS_64")
      ELSE IF TargetRel.Type # "R_MIPS_64"
        THEN err("expected R_MIPS_64")
      ELSE IF CapSymbols[LocationSym].File # S.File
        THEN err("location in another file")
      ELSE IF CapSymbols[LocationSym].Kind # "DefinedRegular"
        THEN err("unhandled symbol kind")
      ELSE IF CapSymbols[TargetSym].Kind = "Undefined"
        THEN IF Config.AllowUndefinedCapRelocs
               THEN [st EXCEPT !.Warnings = Append(@, "undefined symbol")]
               ELSE err("undefined symbol")
      ELSE IF CapSymbols[TargetSym].Kind = "Shared" /\ Config.Static
        THEN err("shared symbol when linking statically")
      ELSE IF CapSymbols[TargetSym].Kind
                \notin {"DefinedRegular", "DefinedCommon", "Shared"}
        THEN err("unhandled target kind")
      ELSE IF \E k \in 1..Len(st.Map) : st.Map[k].Key = Key
        THEN err("already added")
      ELSE IF LocNeedsDynReloc /\ ~CapSymbols[LocationSym].IsSection
                /\ ~NDEBUG
        THEN [inserted EXCEPT !.Abort = TRUE]
      ELSE withTarget

\* CheriCapRelocsSection::processSection(S), from the pair at i on
RECURSIVE processSectionFrom(_, _, _)
processSectionFrom(st, S, i) ==
  IF i + 1 > Len(S.Relas) \/ st.Stop \/ st.Abort THEN st
  ELSE processSectionFrom(ProcessPair(st, S, i), S, i + 2)

processSection(st, S) == processSectionFrom(st, S, 1)

\* The two checks of addSection (SizeUnchecked: the first one left out).
SizeUnchecked(S) == TRUE
SizeIsMultiple(S) == S.Size % CapEntsize = 0

CountMatches(S) == (S.Size \div RelocSize) * 2 = Len(S.Relas)

\* CheriCapRelocsSection::addSection(S)
addSection(st, S) ==
  IF ~SizeIsMultiple(S)
    THEN [st EXCEPT !.Errors = Append(@, "size is not a multiple")]
  ELSE IF ~CountMatches(S)
    THEN [st EXCEPT !.Errors = Append(@, "expected relocations")]
  ELSE processSection(st, S)

\* CheriCapRelocsSection::addSection(S) for the input section named n
CapAddSection(n) ==
  /\ capState = "CREATED"
  /\ relaState = "CREATED"
  /\ Len(CapAdded) < MaxCapSections
  /\ \A k \in 1..Len(CapAdded) : CapAdded[k] # n
  /\ LET S == CapInputSections[n]
         st == addSection(
                 [Map |-> RelocsMap,
                  Rela |-> [Relocs |-> Relocs,
                            NumRelativeRelocs |-> NumRelativeRelocs,
                            Hack |-> FreeBSDMipsRelocationsHack],
                  Errors |-> CapErrors, Warnings |-> CapWarnings,
                  Stop |-> FALSE, Abort |-> FALSE], S)
     IN  /\ RelocsMap' = st.Map
         /\ Relocs' = st.Rela.Relocs
         /\ NumRelativeRelocs' = st.Rela.NumRelativeRelocs
         /\ FreeBSDMipsRelocationsHack' = st.Rela.Hack
         /\ CapErrors' = st.Errors
         /\ CapWarnings' = st.Warnings
         /\ capState' = IF st.Abort THEN "ABORTED" ELSE "CREATED"
         /\ CapProcessed' = IF SizeIsMultiple(S) /\ CountMatches(S)
                              THEN Append(CapProcessed, n) ELSE CapProcessed
  /\ CapAdded' = Append(CapAdded, n)
  /\ UNCHANGED <<NDEBUG, NeedsCopy, CapBuf, RelaSort, RelaBuf, relaState>>
  /\ UNCHANGED notCapRelaDynVars

\* A 64-bit word as its four 16-bit parts, the most significant first:
\* the word of a number below 2^31, the word of all ones, and 1ULL << 63.
U64(n) == <<0, 0, n \div 65536, n % 65536>>

UINT64_MAX == <<65535, 65535, 65535, 65535>>

FuncPermission == <<32768, 0, 0, 0>>

\* a <= b of two 64-bit words
RECURSIVE LessEq64From(_, _, _)
LessEq64From(a, b, i) ==
  IF i > 4 THEN TRUE
  ELSE IF a[i] # b[i] THEN a[i] < b[i]
  ELSE LessEq64From(a, b, i + 1)

LessEq64(a, b) == LessEq64From(a, b, 1)

\* SymbolBody::getVA(Addend): the address of the definition plus the
\* addend; a symbol of a shared library without a copy in the output has
\* no address in it and gives 0.
getVA(sym, Addend) ==
  IF CapSymbols[sym].Kind = "Shared" /\ ~NeedsCopy[sym] THEN 0
  ELSE CapSymbolValues[sym].VA + Addend

\* One turn of the loop of writeTo, for the record I of RelocsMap: the
\* entry written, the warnings given and whether the assert fails.
WriteCapReloc(I) ==
  LET Location == I.Key
      Reloc == I.Val
      LocationVA == getVA(Location.BaseSym, Location.Offset)
      TargetVA == getVA(Reloc.Target, Reloc.TargetSymbolOffset)
      TargetOffset == U64(Reloc.Offset)
      V == CapSymbolValues[Reloc.Target]
      Common == CapSymbols[Reloc.Target].Kind = "DefinedCommon"
      TargetSize ==
        IF V.Size # 0 THEN U64(V.Size)
        ELSE IF V.OutSec
          THEN U64(IF Common THEN V.OutSecSize - V.Offset ELSE V.OutSecSize)
        ELSE UINT64_MAX
      Permissions == IF V.IsFunc THEN FuncPermission ELSE U64(0)
  IN  [Entry |-> [Location |-> U64(LocationVA),
                  Object |-> U64(TargetVA),
                  Offset |-> TargetOffset, Size |-> TargetSize,
                  Permissions |-> Permissions],
       Warnings |-> IF V.Size # 0 THEN <<>>
                    ELSE IF V.OutSec THEN <<"could not determine size">>
                    ELSE <<"could not determine size",
                           "could not determine section size">>,
       Abort |-> ~NDEBUG /\ ~LessEq64(TargetOffset, TargetSize)]

\* CheriCapRelocsSection::writeTo(Buf), from record k of RelocsMap on with
\* st = [Buf, Warnings, Abort] so far
RECURSIVE writeToFrom(_, _)
writeToFrom(st, k) ==
  IF k > Len(RelocsMap) \/ st.Abort THEN st
  ELSE LET w == WriteCapReloc(RelocsMap[k])
       IN  writeToFrom(
             IF w.Abort
               THEN [st EXCEPT !.Warnings = @ \o w.Warnings, !.Abort = TRUE]
               ELSE [Buf |-> Append(st.Buf, w.Entry),
                     Warnings |-> st.Warnings \o w.Warnings,
                     Abort |-> FALSE],
             k + 1)

\* CheriCapRelocsSection::writeTo(Buf)
CapWriteTo ==
  /\ capState = "CREATED"
  /\ LET st == writeToFrom([Buf |-> <<>>, Warnings |-> CapWarnings,
                            Abort |-> FALSE], 1)
     IN  /\ CapBuf' = st.Buf
         /\ CapWarnings' = st.Warnings
         /\ capState' = IF st.Abort THEN "ABORTED" ELSE "WRITTEN"
  /\ UNCHANGED <<RelocsMap, CapErrors, CapAdded, CapProcessed, NDEBUG,
                 NeedsCopy>>
  /\ UNCHANGED relaDynVars
  /\ UNCHANGED notCapRelaDynVars

(***************************************************************************)
(* PltSection, with .rel(a).plt and the IRELATIVE relocation section       *)
(***************************************************************************)
PltSyms == 1..NumPltSyms

\* Target->PltHeaderSize, PltEntrySize, GotPltHeaderEntriesNum and
\* GotPltEntrySize of the targets linked for
Targets ==
  {[PltHeaderSize |-> 16, PltEntrySize |-> 16, GotPltHeaderEntriesNum |-> 3,
    GotPltEntrySize |-> 8],
   [PltHeaderSize |-> 32, PltEntrySize |-> 16, GotPltHeaderEntriesNum |-> 2,
    GotPltEntrySize |-> 4],
   [PltHeaderSize |-> 20, PltEntrySize |-> 12, GotPltHeaderEntriesNum |-> 3,
    GotPltEntrySize |-> 4]}

EmptyRelocationSection ==
  [Relocs |-> <<>>, NumRelativeRelocs |-> 0, Hack |-> <<>>]

PltIdle ==
  /\ Target = [PltHeaderSize |-> 16, PltEntrySize |-> 16,
               GotPltHeaderEntriesNum |-> 3, GotPltEntrySize |-> 8]
  /\ PltHeaderSize = 16
  /\ PltEntries = <<>>
  /\ IpltEntries = <<>>
  /\ PltIndex = [s \in PltSyms |-> NoIndex]
  /\ IsInIplt = [s \in PltSyms |-> FALSE]
  /\ RelaPlt = EmptyRelocationSection
  /\ RelaIplt = EmptyRelocationSection
  /\ pltLog = <<>>

\* RelocationSection::getRelocOffset() of the section R (RelocCount: the
\* entry size left out)
RelocCount(R) == Len(R.Relocs)
getRelocOffset(R) == RelEntSize(Config.IsRela) * Len(R.Relocs)

\* PltSection::addEntry(Sym) on a section with header size hs and entries
\* es: the members and symbol fields it leaves behind
addEntryPlt(hs, es, Sym) ==
  LET PltRelocSection == IF hs = 0 THEN RelaIplt ELSE RelaPlt
      RelOff == getRelocOffset(PltRelocSection)
  IN  [PltIndex |-> [PltIndex EXCEPT ![Sym] = Len(es)],
       IsInIplt |-> IF hs = 0 THEN [IsInIplt EXCEPT ![Sym] = TRUE]
                    ELSE IsInIplt,
       Entries |-> Append(es, <<Sym, RelOff>>)]

\* PltSection::getSize()
getSizePlt(hs, es) == hs + Len(es) * Target.PltEntrySize

\* In<ELFT>::Plt->addEntry(Sym); the relocation scan calls it for a symbol
\* that is not in a PLT yet
PltAddEntry(Sym) ==
  /\ PltIndex[Sym] = NoIndex
  /\ LET r == addEntryPlt(PltHeaderSize, PltEntries, Sym)
     IN  /\ PltIndex' = r.PltIndex
         /\ IsInIplt' = r.IsInIplt
         /\ PltEntries' = r.Entries
  /\ pltLog' = Append(pltLog, [sec |-> "Plt", sym |-> Sym,
                               relocs |-> Len(RelaPlt.Relocs)])
  /\ UNCHANGED <<Target, PltHeaderSize, IpltEntries, RelaPlt, RelaIplt>>
  /\ UNCHANGED notPltVars

\* In<ELFT>::Iplt->addEntry(Sym)
IpltAddEntry(Sym) ==
  /\ PltIndex[Sym] = NoIndex
  /\ LET r == addEntryPlt(0, IpltEntries, Sym)
     IN  /\ PltIndex' = r.PltIndex
         /\ IsInIplt' = r.IsInIplt
         /\ IpltEntries' = r.Entries
  /\ pltLog' = Append(pltLog, [sec |-> "Iplt", sym |-> Sym,
                               relocs |-> Len(RelaIplt.Relocs)])
  /\ UNCHANGED <<Target, PltHeaderSize, PltEntries, RelaPlt, RelaIplt>>
  /\ UNCHANGED notPltVars

HasReloc(R, Sym) == \E i \in 1..Len(R.Relocs) : R.Relocs[i].Sym = Sym

\* In<ELFT>::RelaPlt->addReloc: the relocation of the .got.plt slot of a
\* symbol with a PLT entry
RelaPltAddReloc(Sym) ==
  /\ PltIndex[Sym] # NoIndex /\ ~IsInIplt[Sym]
  /\ ~HasReloc(RelaPlt, Sym)
  /\ RelaPlt' = addReloc(RelaPlt,
                         DynamicReloc("PltRel", "GotPlt",
                                      Len(RelaPlt.Relocs) * Config.Wordsize,
                                      FALSE, Sym, 0))
  /\ UNCHANGED <<Target, PltHeaderSize, PltEntries, IpltEntries, PltIndex,
                 IsInIplt, RelaIplt, pltLog>>
  /\ UNCHANGED notPltVars

\* In<ELFT>::RelaIplt->addReloc: the IRELATIVE relocation of a symbol with
\* an IPLT entry
RelaIpltAddReloc(Sym) ==
  /\ PltIndex[Sym] # NoIndex /\ IsInIplt[Sym]
  /\ ~HasReloc(RelaIplt, Sym)
  /\ RelaIplt' = addReloc(RelaIplt,
                          DynamicReloc("IRelativeRel", "IgotPlt",
                                       Len(RelaIplt.Relocs) * Config.Wordsize,
                                       TRUE, Sym, 0))
  /\ UNCHANGED <<Target, PltHeaderSize, PltEntries, IpltEntries, PltIndex,
                 IsInIplt, RelaPlt, pltLog>>
  /\ UNCHANGED notPltVars

(***************************************************************************)
(* BuildIdSection                                                          *)
(***************************************************************************)
NT_GNU_BUILD_ID == 3

\* The chunk size computeHash splits by.
ChunkSize == 1024 * 1024

\* getHashSize()
getHashSize ==
  CASE Config.BuildId = "Fast" -> 8
    [] Config.BuildId \in {"Md5", "Uuid"} -> 16
    [] Config.BuildId = "Sha1" -> 20
    [] Config.BuildId = "Hexstring" -> Len(Config.BuildIdVector)

BuildIdIdle ==
  /\ ImageSize = 0
  /\ HashSize = 8
  /\ NoteBuf = <<>>
  /\ BuildIdHashBuf = "null"
  /\ Chunks = <<>>
  /\ Hashes = <<>>
  /\ HashWrites = <<>>
  /\ BuildIdErrors = <<>>
  /\ buildIdState = "CREATED"

\* An ArrayRef<uint8_t> into the image: where it starts and its size.
ArrayRef(Off, Size) == [Off |-> Off, Size |-> Size]

\* ArrayRef::take_front(N) (take_all: the whole array) and drop_front(N)
take_all(Arr, N) == Arr
take_front(Arr, N) == ArrayRef(Arr.Off, N)

drop_front(Arr, N) == ArrayRef(Arr.Off + N, Arr.Size - N)

\* split(Arr, ChunkSize), with Ret as far as the loop has got
RECURSIVE splitFrom(_, _, _)
splitFrom(Ret, Arr, Chunk) ==
  IF Arr.Size > Chunk
    THEN splitFrom(Append(Ret, take_front(Arr, Chunk)),
                   drop_front(Arr, Chunk), Chunk)
  ELSE IF Arr.Size # 0 THEN Append(Ret, Arr)
  ELSE Ret

split(Arr, Chunk) == splitFrom(<<>>, Arr, Chunk)

\* The hash function of the build-id kind applied to Arr, which is a piece
\* of the image or the buffer of hashes: the function and what it was
\* given stand for the value (no two inputs collide).
HashFn(Arr) == [Fn |-> Config.BuildId, Of |-> Arr]

HashKinds == {"Fast", "Md5", "Sha1"}

\* A slot of the buffer of hashes no task has written yet.
Unwritten == [Fn |-> "none", Of |-> ArrayRef(0, 0)]

\* BuildIdSection::writeTo(Buf)
BuildIdWriteTo ==
  /\ buildIdState = "CREATED"
  /\ NoteBuf' = [NameSize |-> 4, ContentSize |-> HashSize,
                 Type |-> NT_GNU_BUILD_ID, Name |-> "GNU"]
  /\ BuildIdHashBuf' = "unwritten"
  /\ buildIdState' = "WRITTEN"
  /\ UNCHANGED <<ImageSize, HashSize, Chunks, Hashes, HashWrites,
                 BuildIdErrors>>
  /\ UNCHANGED notBuildIdVars

\* BuildIdSection::writeBuildId(Buf) up to the parallel loop of
\* computeHash, or to its end for the kinds that do not hash.  failed is
\* what getRandomBytes returns.
WriteBuildId(failed) ==
  /\ buildIdState = "WRITTEN"
  /\ IF Config.BuildId \in HashKinds
       THEN /\ ~failed
            /\ LET C == split(ArrayRef(0, ImageSize), ChunkSize)
               IN  /\ Chunks' = C
                   /\ Hashes' = [I \in 1..Len(C) |-> Unwritten]
            /\ buildIdState' = "HASHING"
            /\ UNCHANGED <<BuildIdHashBuf, BuildIdErrors>>
     ELSE IF Config.BuildId = "Uuid"
       THEN /\ BuildIdHashBuf' = IF failed THEN BuildIdHashBuf ELSE "random"
            /\ BuildIdErrors' = IF failed
                                  THEN Append(BuildIdErrors,
                                              "entropy source failure")
                                  ELSE BuildIdErrors
            /\ buildIdState' = "DONE"
            /\ UNCHANGED <<Chunks, Hashes>>
     ELSE /\ ~failed
          /\ BuildIdHashBuf' = Config.BuildIdVector
          /\ buildIdState' = "DONE"
          /\ UNCHANGED <<Chunks, Hashes, BuildIdErrors>>
  /\ UNCHANGED <<ImageSize, HashSize, NoteBuf, HashWrites>>
  /\ UNCHANGED notBuildIdVars

\* The bytes the hash function of the kind writes at Dest: write64le, and
\* memcpy of 16 and of 20 bytes.
HashWidth ==
  CASE Config.BuildId = "Fast" -> 8
    [] Config.BuildId = "Md5" -> 16
    [] Config.BuildId = "Sha1" -> 20

\* Where task I (from 0) writes: Hashes.data() + I * HashSize, as a byte
\* offset into Hashes (SharedDest: every task at the start of the buffer).
SharedDest(I) == 0
DestOf(I) == I * HashSize

\* The tasks of parallelForEachN that have run.
TasksDone == {HashWrites[k].Task : k \in 1..Len(HashWrites)}

\* One task of parallelForEachN in computeHash: the hash of chunk I (from
\* 1 here, I - 1 in the code) goes to the slot that starts at its Dest.
ComputeChunkHash(I) ==
  /\ buildIdState = "HASHING"
  /\ I \in 1..Len(Chunks)
  /\ (I - 1) \notin TasksDone
  /\ LET Dest == DestOf(I - 1)
     IN  /\ Hashes' = [Hashes EXCEPT ![Dest \div HashSize + 1] =
                                        HashFn(Chunks[I])]
         /\ HashWrites' = Append(HashWrites,
                                 [Task |-> I - 1, Dest |-> Dest,
                                  Size |-> HashWidth])
  /\ UNCHANGED <<ImageSize, HashSize, NoteBuf, BuildIdHashBuf, Chunks,
                 BuildIdErrors, buildIdState>>
  /\ UNCHANGED notBuildIdVars

\* The end of computeHash: parallelForEachN returns once every task has
\* run, and the buffer of hashes is hashed into HashBuf.
ComputeHashFinish ==
  /\ buildIdState = "HASHING"
  /\ TasksDone = 0..(Len(Chunks) - 1)
  /\ BuildIdHashBuf' = HashFn(Hashes)
  /\ buildIdState' = "DONE"
  /\ UNCHANGED <<ImageSize, HashSize, NoteBuf, Chunks, Hashes, HashWrites,
                 BuildIdErrors>>
  /\ UNCHANGED notBuildIdVars

(***************************************************************************)
(* MipsGotSection::writeTo                                                 *)
(***************************************************************************)
\* getMipsPageAddr(Addr): (Addr + 0x8000) & ~0xffff
getMipsPageAddr(Addr) == ((Addr + 32768) \div 65536) * 65536

\* writeUint(Buf, Val): the 16-bit pieces of the word it stores, the most
\* significant first, 8 bytes when Config->Is64 and 4 otherwise.
writeUint(Val) == IF Config.Is64 THEN U64(Val) ELSE SubSeq(U64(Val), 3, 4)

\* (uint64_t)1 << (Config->Wordsize * 8 - 1) as writeUint stores it
MipsGnuMark == IF Config.Is64 THEN <<32768, 0, 0, 0>> ELSE <<32768, 0>>

\* A write of writeTo: the slot at Buf + slot * Config->Wordsize and the
\* word stored there.
SlotWrite(slot, word) == [slot |-> slot, word |-> word]

\* writeTo, the loop over G.PageIndexMap
PageWrites(G) ==
  Flatten([i \in 1..Len(G.PageIndexMap) |->
    LET L == G.PageIndexMap[i]
        PageCount == getMipsPageCount(OutputSectionSize(L.key))
        FirstPageAddr == getMipsPageAddr(OutSecAddr[L.key])
    IN  [PI \in 1..PageCount |->
           SlotWrite(L.idx + (PI - 1),
                     writeUint(FirstPageAddr + (PI - 1) * 65536))]])

\* writeTo, the loops over G.Local16, G.Global (for the primary GOT only)
\* and G.Relocs
SymbolWrites(G, IsPrimary) ==
  [i \in 1..Len(G.Local16) |->
     SlotWrite(G.Local16[i].idx,
               writeUint(MipsSymVA[G.Local16[i].key[1]] + G.Local16[i].key[2]))]
    \o (IF IsPrimary
          THEN [i \in 1..Len(G.Global) |->
                  SlotWrite(G.Global[i].idx, writeUint(MipsSymVA[G.Global[i].key]))]
          ELSE <<>>)
    \o [i \in 1..Len(G.Relocs) |->
          SlotWrite(G.Relocs[i].idx, writeUint(MipsSymVA[G.Relocs[i].key]))]

\* writeTo, the loop over G.Tls
TlsWrites(G) ==
  [i \in 1..Len(G.Tls) |->
     LET P == G.Tls[i]
         VA == MipsSymVA[P.key]
     IN  SlotWrite(P.idx, writeUint(IF P.key \in Preemptible THEN VA
                                    ELSE VA - 28672))]

\* writeTo, the loop over G.DynTlsSymbols
DynTlsWrites(G) ==
  Flatten([i \in 1..Len(G.DynTlsSymbols) |->
    LET P == G.DynTlsSymbols[i]
    IN  IF P.key = 0
          THEN IF ~Config.Pic THEN <<SlotWrite(P.idx, writeUint(1))>> ELSE <<>>
          ELSE IF P.key \notin Preemptible
            THEN <<SlotWrite(P.idx, writeUint(1)),
                   SlotWrite(P.idx + 1, writeUint(MipsSymVA[P.key] - 32768))>>
            ELSE <<>>])

\* The writes of writeTo in the order it makes them.
MipsWrites ==
  <<SlotWrite(1, MipsGnuMark)>>
    \o Flatten([k \in 1..Len(Gots) |->
         PageWrites(Gots[k]) \o SymbolWrites(Gots[k], k = 1)
           \o TlsWrites(Gots[k]) \o DynTlsWrites(Gots[k])])

RECURSIVE ApplyWrites(_, _)
\* Buf after the writes ws, made from the first on.  A write behind the end
\* of the section is not modelled: build numbers the slots inside it.
ApplyWrites(Buf, ws) ==
  IF ws = <<>> THEN Buf
  ELSE ApplyWrites([Buf EXCEPT ![Head(ws).slot + 1] = Head(ws).word], Tail(ws))

\* MipsGotSection::writeTo(Buf), Buf holding zeroes
MipsWriteTo ==
  /\ mipsState = "FINALIZED"
  /\ mipsState' = "WRITTEN"
  /\ MipsBuf' = ApplyWrites([i \in 1..(MipsGotSize \div Config.Wordsize) |->
                               writeUint(0)], MipsWrites)
  /\ UNCHANGED <<Gots, MipsGotIndex, Preemptible, MipsGotSize, MipsScanEntries,
                 MipsSymVA, OutSecAddr, GotIndex, relaDynVars>>
  /\ UNCHANGED notMipsVars

(***************************************************************************)
(* .dynamic and .rel(a).dyn of one link                                    *)
(***************************************************************************)
\* RelocationSection::getRelativeRelocCount() of In<ELFT>::RelaDyn
getRelativeRelocCount == NumRelativeRelocs

\* RelocationSection::getSize() of In<ELFT>::RelaDyn, the size of its output
\* section
RelaDynGetSize == Len(Relocs) * RelEntSize(Config.IsRela)

\* addReloc(Reloc) on In<ELFT>::RelaDyn during the scan of the relocations:
\* the finalize pass, and .dynamic in it, follows the scan.
RelaAddRelocInScan(r) ==
  /\ dynState = "CREATED"
  /\ RelaAddReloc(r)

\* DynamicSection::finalizeContents() in the link whose .rel(a).dyn is
\* In<ELFT>::RelaDyn: the size and the RELATIVE count it reads are those of
\* that section.
DynFinalizeAfterRelaDyn ==
  /\ dynState = "CREATED"
  /\ DynSize = 0
  /\ LET I == [DynInputs EXCEPT !.RelaDynSize = RelaDynGetSize,
                                !.NumRelativeRels = getRelativeRelocCount]
     IN  /\ DynInputs' = I
         /\ DynEntries' = DynEntries \o FinalEntriesOf(I)
  /\ DynSize' = EntriesAndNull(Len(DynEntries')) * DynEntsize
  /\ dynState' = "FINALIZED"
  /\ UNCHANGED DynBuf
  /\ UNCHANGED notDynVars

(***************************************************************************)
(* MipsGotSection::getPageEntryOffset and the page slots of writeTo        *)
(***************************************************************************)
\* A uint64_t address or size as <<page, offset>>, worth page * 0x10000 +
\* offset with offset below 0x10000; the values of the model are below 2^47.
AddWide(a, b) ==
  <<a[1] + b[1] + (a[2] + b[2]) \div 65536, (a[2] + b[2]) % 65536>>
SubWide(a, b) ==
  IF a[2] >= b[2] THEN <<a[1] - b[1], a[2] - b[2]>>
  ELSE <<a[1] - b[1] - 1, a[2] + 65536 - b[2]>>
LessWide(a, b) == a[1] < b[1] \/ (a[1] = b[1] /\ a[2] < b[2])

\* a / 0xffff: page * 0x10000 + offset is page * 0xffff + (page + offset)
DivBy0xffff(a) == a[1] + (a[1] + a[2]) \div 65535

\* getMipsPageAddr(Addr) and getMipsPageCount(Size) on such values
getMipsPageAddrWide(Addr) ==
  <<Addr[1] + (IF Addr[2] >= 32768 THEN 1 ELSE 0), 0>>
getMipsPageCountWide(Size) == DivBy0xffff(AddWide(Size, <<0, 65534>>)) + 1

\* G.PageIndexMap.lookup(OutSec) of the section asked about: the first
\* slot behind the header.
PageFirstIndex == HeaderEntriesNum

\* The output sections and symbol offsets asked about: sections that start
\* on, before and behind the middle of a 64 KiB page, of one byte up to
\* 4 GiB, and symbols at both ends of the section and next to the page
\* boundaries in it.
PageAddrs == {<<5, 0>>, <<4, 32760>>, <<4, 32768>>, <<4, 65535>>, <<5, 32767>>}
PageSizes ==
  {<<0, 1>>, <<0, 16>>, <<0, 65535>>, <<1, 0>>, <<3, 0>>, <<65534, 1>>,
   <<65535, 0>>, <<65535, 1>>, <<65536, 0>>}
PageOffs ==
  {<<0, 0>>, <<0, 8>>, <<0, 32767>>, <<0, 32768>>, <<0, 65535>>, <<1, 0>>,
   <<2, 65535>>, <<65534, 65535>>, <<65535, 0>>, <<65535, 65535>>}
PageOffsIn(Size) ==
  {o \in PageOffs \cup {SubWide(Size, <<0, 1>>)} : LessWide(o, Size)}
PageInputs ==
  UNION {{[Addr |-> a, Size |-> sz, Off |-> o] :
            a \in PageAddrs, o \in PageOffsIn(sz)} : sz \in PageSizes}

\* No call of getPageEntryOffset yet.
PageEntryIdle ==
  /\ PageArgs = [Addr |-> <<0, 0>>, Size |-> <<0, 0>>, Off |-> <<0, 0>>]
  /\ PageRet = [Called |-> FALSE, Offset |-> 0, PageCount |-> 0,
                Written |-> <<0, 0>>]

\* getPageEntryOffset(F, B, Addend) for a symbol at OutSec->Addr + Off, and
\* the word the page loop of writeTo stores into the slot it names (zero
\* when the loop does not reach the slot).
MipsGetPageEntryOffset ==
  /\ ~PageRet.Called
  /\ LET SecAddr == getMipsPageAddrWide(PageArgs.Addr)
         SymAddr == getMipsPageAddrWide(AddWide(PageArgs.Addr, PageArgs.Off))
         Index == PageFirstIndex + DivBy0xffff(SubWide(SymAddr, SecAddr))
         PageCount == getMipsPageCountWide(PageArgs.Size)
         FirstPageAddr == getMipsPageAddrWide(PageArgs.Addr)
         PI == Index - PageFirstIndex
     IN  PageRet' =
           [Called |-> TRUE,
            Offset |-> Index * Config.Wordsize,
            PageCount |-> PageCount,
            Written |-> IF PI < PageCount
                          THEN AddWide(FirstPageAddr, <<PI, 0>>)
                          ELSE <<0, 0>>]
  /\ UNCHANGED PageArgs
  /\ UNCHANGED notPageVars

(***************************************************************************)
(* Specifications: one per family of sections                              *)
(***************************************************************************)
GotNext ==
  \/ \E s \in GotSyms : GotAddEntry(s)
  \/ \E s \in GotSyms : GotAddDynTlsEntry(s)
  \/ GotAddTlsIndex
  \/ GotFinalizeContents
  \/ GotWriteTo

InitGot ==
  /\ Config \in {ConfigOfWordsize(DefaultConfig, w) : w \in {4, 8}}
  /\ GotInit
  /\ MipsGotIdle
  /\ RelaDynInit
  /\ SymIdle
  /\ EhFrameInit
  /\ DynamicIdle
  /\ CapRelocsIdle
  /\ PltIdle
  /\ BuildIdIdle
  /\ BucketSizeIdle
  /\ StringTableIdle
  /\ SortMipsIdle
  /\ VerDefIdle
  /\ PageEntryIdle
SpecGot == InitGot /\ [][GotNext]_vars

MipsExprs ==
  {"R_MIPS_GOT_LOCAL_PAGE", "R_ABS", "R_MIPS_GOT_OFF32", "R_MIPS_GOT_OFF"}

MipsGotNext ==
  \/ \E f \in MipsFiles, s \in MipsSyms, expr \in MipsExprs :
       MipsAddEntry(f, s, 0, expr)
  \/ \E f \in MipsFiles, s \in MipsSyms : MipsAddDynTlsEntry(f, s)
  \/ \E f \in MipsFiles : MipsAddTlsIndex(f)
  \/ \E s \in MipsSyms : MipsCopyRelocation(s)
  \/ MipsBuild
  \/ MipsFinalizeContents

InitMipsGot ==
  /\ Config \in MipsConfigs
  /\ GotInit
  /\ MipsGotIdle
  /\ RelaDynInit
  /\ SymIdle
  /\ EhFrameInit
  /\ DynamicIdle
  /\ CapRelocsIdle
  /\ PltIdle
  /\ BuildIdIdle
  /\ BucketSizeIdle
  /\ StringTableIdle
  /\ SortMipsIdle
  /\ VerDefIdle
  /\ PageEntryIdle

SpecMipsGot == InitMipsGot /\ [][MipsGotNext]_vars

\* The links .dynsym is followed in: with a GNU hash table on either word
\* size, for MIPS without one, and plain.
DynSymConfigs ==
  {[ConfigOfWordsize(DefaultConfig, 8) EXCEPT !.HasGnuHashTab = TRUE],
   [ConfigOfWordsize(DefaultConfig, 4) EXCEPT !.HasGnuHashTab = TRUE],
   [ConfigOfWordsize(DefaultConfig, 4) EXCEPT !.EMachineMips = TRUE],
   ConfigOfWordsize(DefaultConfig, 8)}

\* The symbols of the link: all defined, or every third one undefined.
DynSymKinds ==
  {[s \in Syms |-> "global"],
   [s \in Syms |-> IF s % 3 = 2 THEN "undefined" ELSE "global"]}

\* The symbols of the link, for .symtab: of every kind, or of one.
SymTabKinds ==
  {[s \in Syms |-> IF s % 4 = 1 THEN "global"
                   ELSE IF s % 4 = 2 THEN "local"
                   ELSE IF s % 4 = 3 THEN "undefined" ELSE "hidden"],
   [s \in Syms |-> "global"],
   [s \in Syms |-> "local"]}

\* GotIndex as the build of the MIPS GOT left it by the time .dynsym is
\* finalized: two symbols in three have a slot.
MipsDynSymGotIndex == [s \in Syms |-> IF s % 3 = 0 THEN NoIndex ELSE 10 - s]

InitSym(configs, kinds) ==
  /\ Config \in configs
  /\ NumEntries = 0
  /\ TlsIndexOff = NoIndex
  /\ GotSize = 0
  /\ GotIndex = IF Config.EMachineMips THEN MipsDynSymGotIndex
                ELSE [s \in Syms |-> NoIndex]
  /\ GlobalDynIndex = [s \in Syms |-> NoIndex]
  /\ gotState = "CREATED"
  /\ gotLog = <<>>
  /\ tlsCall = [n |-> 0, called |-> {}, op |-> "none", sym |-> 0,
                ret |-> FALSE]
  /\ MipsGotIdle
  /\ RelaDynInit
  /\ SymKind \in kinds
  /\ DynStrTab = StringTableSection
  /\ StrTab = StringTableSection
  /\ DynSymTab = [Symbols |-> <<>>, Info |-> 0]
  /\ SymTab = [Symbols |-> <<>>, Info |-> 0]
  /\ DynsymIndex = [s \in Syms |-> 0]
  /\ GnuHashTab = [Symbols |-> <<>>, NBuckets |-> 0, MaskWords |-> 0,
                   Size |-> 0]
  /\ HashTab = [Size |-> 0]
  /\ GnuHashBuf = <<>>
  /\ HashBuf = <<>>
  /\ symtabLog = <<>>
  /\ symState = [dynsym |-> 0, symtab |-> 0, gnuhash |-> 0, hash |-> 0,
                 gnuhashWritten |-> FALSE, hashWritten |-> FALSE]
  /\ EhFrameInit
  /\ DynamicIdle
  /\ CapRelocsIdle
  /\ PltIdle
  /\ BuildIdIdle
  /\ BucketSizeIdle
  /\ StringTableIdle
  /\ SortMipsIdle
  /\ VerDefIdle
  /\ PageEntryIdle

DynSymNext ==
  \/ \E s \in Syms : DynSymAddSymbol(s)
  \/ DynSymFinalizeContents
  \/ GnuHashFinalizeContents
  \/ GnuHashWriteTo
  \/ HashFinalizeContents
  \/ HashWriteTo

InitDynSym == InitSym(DynSymConfigs, DynSymKinds)

\* .dynsym and its hash tables, each finalized once as the writer does
SpecDynSym == InitDynSym /\ [][DynSymNext]_vars

DynSymRefinalizeNext ==
  \/ \E s \in Syms : DynSymAddSymbol(s)
  \/ DynSymFinalizeContents
  \/ DynSymRefinalizeContents
  \/ GnuHashFinalizeContents
  \/ GnuHashWriteTo
  \/ HashFinalizeContents
  \/ HashWriteTo

\* .dynsym and its hash tables, finalizeContents of .dynsym callable again
SpecDynSymRefinalize == InitDynSym /\ [][DynSymRefinalizeNext]_vars

SymTabNext ==
  \/ \E s \in Syms : SymTabAddSymbol(s)
  \/ SymTabFinalizeContents
  \/ SymTabPostThunkContents

InitSymTab == InitSym({DefaultConfig}, SymTabKinds)

SpecSymTab == InitSymTab /\ [][SymTabNext]_vars

EhFrameNext ==
  \/ \E sec \in EhSectionIds : EhAddSection(sec)
  \/ EhFinalizeContents
  \/ EhWriteTo

InitEhFrame ==
  /\ Config \in {ConfigOfWordsize(DefaultConfig, w) : w \in {4, 8}}
  /\ GotInit
  /\ MipsGotIdle
  /\ RelaDynInit
  /\ SymIdle
  /\ EhFrameInit
  /\ DynamicIdle
  /\ CapRelocsIdle
  /\ PltIdle
  /\ BuildIdIdle
  /\ BucketSizeIdle
  /\ StringTableIdle
  /\ SortMipsIdle
  /\ VerDefIdle
  /\ PageEntryIdle

SpecEhFrame == InitEhFrame /\ [][EhFrameNext]_vars

EhFrameHdrNext ==
  \/ \E Pc \in FdePcs, FdeVA \in FdeVAs : EhHdrAddFde(Pc, FdeVA)
  \/ EhHdrWriteTo

\* .eh_frame_hdr under any calls of addFde
SpecEhFrameHdr == InitEhFrame /\ [][EhFrameHdrNext]_vars

DynamicNext ==
  \/ DynFinalizeContents
  \/ DynWriteTo

\* .dynamic once its constructor has run addEntries()
InitDynamic ==
  /\ Config \in {[ConfigOfWordsize(DefaultConfig, w) EXCEPT
                    !.EMachineMips = mips, !.HasGnuHashTab = gnu,
                    !.IsRela = rela] :
                   w \in {4, 8}, mips \in BOOLEAN, gnu \in BOOLEAN,
                   rela \in BOOLEAN}
  /\ GotInit
  /\ MipsGotIdle
  /\ RelaDynInit
  /\ EhFrameInit
  /\ CapRelocsIdle
  /\ PltIdle
  /\ BuildIdIdle
  /\ BucketSizeIdle
  /\ StringTableIdle
  /\ SortMipsIdle
  /\ VerDefIdle
  /\ PageEntryIdle
  /\ DynInputs \in DynInputsSet
  /\ LET r == addEntries(StringTableSection, DynInputs)
     IN  /\ DynStrTab = r.tab
         /\ DynEntries = r.Entries
  /\ DynSize = 0
  /\ DynBuf = <<>>
  /\ dynState = "CREATED"
  /\ SymKind = [s \in Syms |-> "global"]
  /\ StrTab = StringTableSection
  /\ DynSymTab = [Symbols |-> <<>>, Info |-> 0]
  /\ SymTab = [Symbols |-> <<>>, Info |-> 0]
  /\ DynsymIndex = [s \in Syms |-> 0]
  /\ GnuHashTab = [Symbols |-> <<>>, NBuckets |-> 0, MaskWords |-> 0,
                   Size |-> 0]
  /\ HashTab = [Size |-> 0]
  /\ GnuHashBuf = <<>>
  /\ HashBuf = <<>>
  /\ symtabLog = <<>>
  /\ symState = [dynsym |-> 0, symtab |-> 0, gnuhash |-> 0, hash |-> 0,
                 gnuhashWritten |-> FALSE, hashWritten |-> FALSE]

SpecDynamic == InitDynamic /\ [][DynamicNext]_vars

RelaDynNext ==
  \/ \E r \in RelocInputs : RelaAddReloc(r)
  \/ RelaWriteTo

\* .rel(a).dyn of a link whose .dynsym has been finalized (symbol s has
\* index s), with and without sorting
InitRelaDyn ==
  /\ Config \in {[ConfigOfWordsize(DefaultConfig, 8) EXCEPT !.IsRela = rela] :
                   rela \in BOOLEAN}
  /\ GotInit
  /\ MipsGotIdle
  /\ Relocs = <<>>
  /\ NumRelativeRelocs = 0
  /\ FreeBSDMipsRelocationsHack = <<>>
  /\ RelaSort \in BOOLEAN
  /\ RelaBuf = <<>>
  /\ relaState = "CREATED"
  /\ EhFrameInit
  /\ DynamicIdle
  /\ CapRelocsIdle
  /\ PltIdle
  /\ BuildIdIdle
  /\ BucketSizeIdle
  /\ StringTableIdle
  /\ SortMipsIdle
  /\ VerDefIdle
  /\ PageEntryIdle
  /\ SymKind = [s \in Syms |-> "global"]
  /\ DynStrTab = StringTableSection
  /\ StrTab = StringTableSection
  /\ DynSymTab = [Symbols |-> [s \in 1..NumSyms |->
                                 [Symbol |-> s, StrTabOffset |-> s]],
                  Info |-> 1]
  /\ SymTab = [Symbols |-> <<>>, Info |-> 0]
  /\ DynsymIndex = [s \in Syms |-> s]
  /\ GnuHashTab = [Symbols |-> <<>>, NBuckets |-> 0, MaskWords |-> 0,
                   Size |-> 0]
  /\ HashTab = [Size |-> 0]
  /\ GnuHashBuf = <<>>
  /\ HashBuf = <<>>
  /\ symtabLog = <<>>
  /\ symState = [dynsym |-> 1, symtab |-> 0, gnuhash |-> 0, hash |-> 0,
                 gnuhashWritten |-> FALSE, hashWritten |-> FALSE]

SpecRelaDyn == InitRelaDyn /\ [][RelaDynNext]_vars

CapRelocsNext ==
  \/ \E n \in CapSectionNames : CapAddSection(n)
  \/ CapWriteTo
  \/ RelaWriteTo

\* __cap_relocs of static, PIC and PIE links, in builds with and without
\* assert(), ahead of the write of .rel(a).dyn
InitCapRelocs ==
  /\ \E pic \in BOOLEAN, pie \in BOOLEAN, static \in BOOLEAN,
        allow \in BOOLEAN :
       /\ ~(static /\ (pic \/ pie))
       /\ Config = [ConfigOfWordsize(DefaultConfig, 8) EXCEPT
                      !.Pic = pic, !.Pie = pie, !.Static = static,
                      !.AllowUndefinedCapRelocs = allow, !.IsRela = TRUE]
  /\ GotInit
  /\ MipsGotIdle
  /\ RelaDynInit
  /\ EhFrameInit
  /\ DynamicIdle
  /\ PltIdle
  /\ BuildIdIdle
  /\ BucketSizeIdle
  /\ StringTableIdle
  /\ SortMipsIdle
  /\ VerDefIdle
  /\ PageEntryIdle
  /\ RelocsMap = <<>>
  /\ CapErrors = <<>>
  /\ CapWarnings = <<>>
  /\ CapAdded = <<>>
  /\ CapProcessed = <<>>
  /\ NDEBUG \in BOOLEAN
  /\ CapBuf = <<>>
  /\ \E copied \in BOOLEAN :
       NeedsCopy = [sym \in 1..Len(CapSymbols) |->
                      copied /\ CapSymbols[sym].Kind = "Shared"]
  /\ capState = "CREATED"
  /\ SymKind = [s \in Syms |-> "global"]
  /\ DynStrTab = StringTableSection
  /\ StrTab = StringTableSection
  /\ DynSymTab = [Symbols |-> [s \in 1..NumSyms |->
                                 [Symbol |-> s, StrTabOffset |-> s]],
                  Info |-> 1]
  /\ SymTab = [Symbols |-> <<>>, Info |-> 0]
  /\ DynsymIndex = [s \in Syms |-> s]
  /\ GnuHashTab = [Symbols |-> <<>>, NBuckets |-> 0, MaskWords |-> 0,
                   Size |-> 0]
  /\ HashTab = [Size |-> 0]
  /\ GnuHashBuf = <<>>
  /\ HashBuf = <<>>
  /\ symtabLog = <<>>
  /\ symState = [dynsym |-> 1, symtab |-> 0, gnuhash |-> 0, hash |-> 0,
                 gnuhashWritten |-> FALSE, hashWritten |-> FALSE]

SpecCapRelocs == InitCapRelocs /\ [][CapRelocsNext]_vars

PltNext ==
  \/ \E Sym \in PltSyms : PltAddEntry(Sym)
  \/ \E Sym \in PltSyms : IpltAddEntry(Sym)
  \/ \E Sym \in PltSyms : RelaPltAddReloc(Sym)
  \/ \E Sym \in PltSyms : RelaIpltAddReloc(Sym)

\* .plt and the IPLT of REL and RELA links of both word sizes
InitPlt ==
  /\ Config \in {[ConfigOfWordsize(DefaultConfig, w) EXCEPT !.IsRela = rela] :
                   w \in {4, 8}, rela \in BOOLEAN}
  /\ GotInit
  /\ MipsGotIdle
  /\ RelaDynInit
  /\ SymIdle
  /\ EhFrameInit
  /\ DynamicIdle
  /\ CapRelocsIdle
  /\ BuildIdIdle
  /\ BucketSizeIdle
  /\ StringTableIdle
  /\ SortMipsIdle
  /\ VerDefIdle
  /\ PageEntryIdle
  /\ Target \in Targets
  /\ PltHeaderSize = Target.PltHeaderSize
  /\ PltEntries = <<>>
  /\ IpltEntries = <<>>
  /\ PltIndex = [s \in PltSyms |-> NoIndex]
  /\ IsInIplt = [s \in PltSyms |-> FALSE]
  /\ RelaPlt = EmptyRelocationSection
  /\ RelaIplt = EmptyRelocationSection
  /\ pltLog = <<>>

SpecPlt == InitPlt /\ [][PltNext]_vars

BuildIdNext ==
  \/ BuildIdWriteTo
  \/ \E failed \in BOOLEAN : WriteBuildId(failed)
  \/ \E I \in 1..(MaxChunks + 1) : ComputeChunkHash(I)
  \/ ComputeHashFinish

\* Images of up to MaxChunks chunks, a byte more and a byte less
ImageSizes ==
  {n \in {k * ChunkSize + d : k \in 0..MaxChunks, d \in {-1, 0, 1}} : n >= 0}

\* .note.gnu.build-id of every kind over images of every size
InitBuildId ==
  /\ \E kind \in HashKinds \cup {"Uuid", "Hexstring"} :
       Config = [DefaultConfig EXCEPT !.BuildId = kind,
                                      !.BuildIdVector = <<171, 205>>]
  /\ GotInit
  /\ MipsGotIdle
  /\ RelaDynInit
  /\ SymIdle
  /\ EhFrameInit
  /\ DynamicIdle
  /\ CapRelocsIdle
  /\ PltIdle
  /\ ImageSize \in ImageSizes
  /\ HashSize = getHashSize
  /\ NoteBuf = <<>>
  /\ BuildIdHashBuf = "null"
  /\ Chunks = <<>>
  /\ Hashes = <<>>
  /\ HashWrites = <<>>
  /\ BuildIdErrors = <<>>
  /\ buildIdState = "CREATED"
  /\ BucketSizeIdle
  /\ StringTableIdle
  /\ SortMipsIdle
  /\ VerDefIdle
  /\ PageEntryIdle

SpecBuildId == InitBuildId /\ [][BuildIdNext]_vars

\* The addends of the relocations of the one file of SpecMipsGotPages.
MipsAddends == {0, 4}

MipsGotPagesNext ==
  \/ \E s \in {1, 2}, a \in MipsAddends, expr \in MipsExprs :
       MipsAddEntry(1, s, a, expr)
  \/ MipsBuild
  \/ MipsFinalizeContents

\* The MIPS GOT of a link of one object file that registers up to
\* MaxPageScanEntries entries, under the GOT limits of MipsConfigs and
\* under the default limit with either word size
InitMipsGotPages ==
  /\ Config \in MipsConfigs
                  \cup {[ConfigOfWordsize(DefaultConfig, 4) EXCEPT
                           !.EMachineMips = TRUE]}
  /\ GotInit
  /\ Gots = <<>>
  /\ MipsGotIndex = [f \in MipsFiles |-> NoIndex]
  /\ Preemptible = InitiallyPreemptible
  /\ MipsGotSize = 0
  /\ mipsState = "CREATED"
  /\ MipsScanEntries = MaxPageScanEntries
  /\ MipsSymVA = DefinedSymVA
  /\ OutSecAddr = OutputSectionAddr
  /\ MipsBuf = <<>>
  /\ RelaDynInit
  /\ SymIdle
  /\ EhFrameInit
  /\ DynamicIdle
  /\ CapRelocsIdle
  /\ PltIdle
  /\ BuildIdIdle
  /\ BucketSizeIdle
  /\ StringTableIdle
  /\ SortMipsIdle
  /\ VerDefIdle
  /\ PageEntryIdle

SpecMipsGotPages == InitMipsGotPages /\ [][MipsGotPagesNext]_vars

RelativeRelocsNext ==
  \/ \E f \in MipsFiles, s \in {1, 2},
        expr \in {"R_MIPS_GOT_OFF", "R_MIPS_GOT_LOCAL_PAGE"} :
       MipsAddEntry(f, s, 0, expr)
  \/ MipsBuild
  \/ \E n \in {"good", "two"} : CapAddSection(n)
  \/ \E s \in {1, 2} : DynSymAddSymbol(s)
  \/ DynSymFinalizeContents
  \/ RelaWriteTo

\* A MIPS link with a GOT limit of three words, PIC or not: second
\* partitions of the GOT, __cap_relocs, .dynsym and .rel.dyn together
InitRelativeRelocs ==
  /\ Config \in {[ConfigOfWordsize(DefaultConfig, 4) EXCEPT
                    !.EMachineMips = TRUE, !.MipsGotSize = 12, !.Pic = pic] :
                   pic \in BOOLEAN}
  /\ GotInit
  /\ MipsGotIdle
  /\ RelaDynInit
  /\ SymIdle
  /\ EhFrameInit
  /\ DynamicIdle
  /\ CapRelocsIdle
  /\ PltIdle
  /\ BuildIdIdle
  /\ BucketSizeIdle
  /\ StringTableIdle
  /\ SortMipsIdle
  /\ VerDefIdle
  /\ PageEntryIdle

SpecRelativeRelocs == InitRelativeRelocs /\ [][RelativeRelocsNext]_vars

BucketSizeNext ==
  \/ GetBucketSize

\* getBucketSize for every number of hashed symbols addSymbols calls it
\* with: addSymbols returns before the call when there is none
InitBucketSize ==
  /\ Config = DefaultConfig
  /\ GotInit
  /\ MipsGotIdle
  /\ RelaDynInit
  /\ SymIdle
  /\ EhFrameInit
  /\ DynamicIdle
  /\ CapRelocsIdle
  /\ PltIdle
  /\ BuildIdIdle
  /\ HashedSymbols \in 1..MaxHashedSymbols
  /\ NBucketsRet = NoIndex
  /\ StringTableIdle
  /\ SortMipsIdle
  /\ VerDefIdle
  /\ PageEntryIdle

SpecBucketSize == InitBucketSize /\ [][BucketSizeNext]_vars

StringTableNext ==
  \/ \E S \in StringInputs, HashIt \in BOOLEAN : StrTabAddString(S, HashIt)
  \/ StrTabWriteTo

\* .strtab as constructed, then addString with and without hashing and
\* writeTo
InitStringTable ==
  /\ Config = DefaultConfig
  /\ GotInit
  /\ MipsGotIdle
  /\ RelaDynInit
  /\ SymIdle
  /\ EhFrameInit
  /\ DynamicIdle
  /\ CapRelocsIdle
  /\ PltIdle
  /\ BuildIdIdle
  /\ BucketSizeIdle
  /\ StringTableIdle
  /\ SortMipsIdle
  /\ VerDefIdle
  /\ PageEntryIdle

SpecStringTable == InitStringTable /\ [][StringTableNext]_vars

\* The MIPS GOT of a link of two object files that register up to
\* MaxBuildEntries entries between them, under the GOT limits of MipsConfigs
InitMipsGotBuild ==
  /\ Config \in MipsConfigs
  /\ GotInit
  /\ Gots = <<>>
  /\ MipsGotIndex = [f \in MipsFiles |-> NoIndex]
  /\ Preemptible = BuildPreemptible
  /\ MipsGotSize = 0
  /\ mipsState = "CREATED"
  /\ MipsScanEntries = MaxBuildEntries
  /\ MipsSymVA = DefinedSymVA
  /\ OutSecAddr = OutputSectionAddr
  /\ MipsBuf = <<>>
  /\ RelaDynInit
  /\ SymIdle
  /\ EhFrameInit
  /\ DynamicIdle
  /\ CapRelocsIdle
  /\ PltIdle
  /\ BuildIdIdle
  /\ BucketSizeIdle
  /\ StringTableIdle
  /\ SortMipsIdle
  /\ VerDefIdle
  /\ PageEntryIdle

SpecMipsGotBuild == InitMipsGotBuild /\ [][MipsGotNext]_vars

MipsGotWriteNext ==
  \/ \E f \in MipsFiles, s \in MipsSyms, expr \in MipsExprs :
       MipsAddEntry(f, s, 0, expr)
  \/ \E f \in MipsFiles, s \in MipsSyms : MipsAddDynTlsEntry(f, s)
  \/ \E f \in MipsFiles : MipsAddTlsIndex(f)
  \/ \E s \in MipsSyms : MipsCopyRelocation(s)
  \/ MipsBuild
  \/ MipsFinalizeContents
  \/ MipsWriteTo

\* The MIPS GOT from the relocation scan to writeTo, the preemptible TLS
\* symbol being defined in the output or in a shared library
InitMipsGotWrite ==
  /\ Config \in MipsConfigs
  /\ GotInit
  /\ Gots = <<>>
  /\ MipsGotIndex = [f \in MipsFiles |-> NoIndex]
  /\ Preemptible = InitiallyPreemptible
  /\ MipsGotSize = 0
  /\ mipsState = "CREATED"
  /\ MipsScanEntries = MaxMipsEntries
  /\ MipsSymVA \in {DefinedSymVA, SharedTlsSymVA}
  /\ OutSecAddr = OutputSectionAddr
  /\ MipsBuf = <<>>
  /\ RelaDynInit
  /\ SymIdle
  /\ EhFrameInit
  /\ DynamicIdle
  /\ CapRelocsIdle
  /\ PltIdle
  /\ BuildIdIdle
  /\ BucketSizeIdle
  /\ StringTableIdle
  /\ SortMipsIdle
  /\ VerDefIdle
  /\ PageEntryIdle

SpecMipsGotWrite == InitMipsGotWrite /\ [][MipsGotWriteNext]_vars

SortMipsNext ==
  \/ \E L, R \in Syms : SortMipsCompare(L, R)

\* The GotIndex of the symbols when .dynsym is sorted: any choice of the
\* symbols that have a slot, each with a slot of its own.
SortMipsGotIndexes ==
  {g \in [Syms -> {NoIndex} \cup 2..4] :
     \A a, b \in Syms : (a # b /\ g[a] # NoIndex) => g[a] # g[b]}

\* sortMipsSymbols on every pair of symbols of a MIPS link
InitSortMips ==
  /\ Config = [ConfigOfWordsize(DefaultConfig, 4) EXCEPT !.EMachineMips = TRUE]
  /\ NumEntries = 0
  /\ TlsIndexOff = NoIndex
  /\ GotSize = 0
  /\ GotIndex \in SortMipsGotIndexes
  /\ GlobalDynIndex = [s \in Syms |-> NoIndex]
  /\ gotState = "CREATED"
  /\ gotLog = <<>>
  /\ tlsCall = [n |-> 0, called |-> {}, op |-> "none", sym |-> 0,
                ret |-> FALSE]
  /\ MipsGotIdle
  /\ RelaDynInit
  /\ SymIdle
  /\ EhFrameInit
  /\ DynamicIdle
  /\ CapRelocsIdle
  /\ PltIdle
  /\ BuildIdIdle
  /\ BucketSizeIdle
  /\ StringTableIdle
  /\ SortMipsIdle
  /\ VerDefIdle
  /\ PageEntryIdle

SpecSortMips == InitSortMips /\ [][SortMipsNext]_vars

\* GotIndex as the build of the MIPS GOT left it in a link where two
\* symbols in five have no slot.
SparseMipsGotIndex == [s \in Syms |-> IF s % 2 = 0 THEN NoIndex ELSE 10 - s]

\* .dynsym of a MIPS link without a GNU hash table, several of whose
\* symbols are not in the GOT
InitMipsDynSym ==
  /\ Config = [ConfigOfWordsize(DefaultConfig, 4) EXCEPT !.EMachineMips = TRUE]
  /\ NumEntries = 0
  /\ TlsIndexOff = NoIndex
  /\ GotSize = 0
  /\ GotIndex = SparseMipsGotIndex
  /\ GlobalDynIndex = [s \in Syms |-> NoIndex]
  /\ gotState = "CREATED"
  /\ gotLog = <<>>
  /\ tlsCall = [n |-> 0, called |-> {}, op |-> "none", sym |-> 0,
                ret |-> FALSE]
  /\ MipsGotIdle
  /\ RelaDynInit
  /\ SymKind \in DynSymKinds
  /\ DynStrTab = StringTableSection
  /\ StrTab = StringTableSection
  /\ DynSymTab = [Symbols |-> <<>>, Info |-> 0]
  /\ SymTab = [Symbols |-> <<>>, Info |-> 0]
  /\ DynsymIndex = [s \in Syms |-> 0]
  /\ GnuHashTab = [Symbols |-> <<>>, NBuckets |-> 0, MaskWords |-> 0,
                   Size |-> 0]
  /\ HashTab = [Size |-> 0]
  /\ GnuHashBuf = <<>>
  /\ HashBuf = <<>>
  /\ symtabLog = <<>>
  /\ symState = [dynsym |-> 0, symtab |-> 0, gnuhash |-> 0, hash |-> 0,
                 gnuhashWritten |-> FALSE, hashWritten |-> FALSE]
  /\ EhFrameInit
  /\ DynamicIdle
  /\ CapRelocsIdle
  /\ PltIdle
  /\ BuildIdIdle
  /\ BucketSizeIdle
  /\ StringTableIdle
  /\ SortMipsIdle
  /\ VerDefIdle
  /\ PageEntryIdle

MipsDynSymNext ==
  \/ \E s \in Syms : DynSymAddSymbol(s)
  \/ DynSymFinalizeContents
  \/ HashFinalizeContents
  \/ HashWriteTo

SpecMipsDynSym == InitMipsDynSym /\ [][MipsDynSymNext]_vars

RelaDynCountNext ==
  \/ \E r \in RelocInputs : RelaAddRelocInScan(r)
  \/ DynFinalizeAfterRelaDyn
  \/ DynWriteTo
  \/ RelaWriteTo

\* .rel(a).dyn and .dynamic of one link whose .dynsym has been finalized,
\* with and without -z combreloc, on MIPS and elsewhere
InitRelaDynCount ==
  /\ Config \in {[ConfigOfWordsize(DefaultConfig, 8) EXCEPT
                    !.IsRela = rela, !.EMachineMips = mips] :
                   rela \in BOOLEAN, mips \in BOOLEAN}
  /\ GotInit
  /\ MipsGotIdle
  /\ Relocs = <<>>
  /\ NumRelativeRelocs = 0
  /\ FreeBSDMipsRelocationsHack = <<>>
  /\ RelaSort \in BOOLEAN
  /\ RelaBuf = <<>>
  /\ relaState = "CREATED"
  /\ EhFrameInit
  /\ DynInputs \in {[PlainDynInputs EXCEPT !.ZCombreloc = z] :
                      z \in BOOLEAN}
  /\ DynEntries = <<>>
  /\ DynSize = 0
  /\ DynBuf = <<>>
  /\ dynState = "CREATED"
  /\ CapRelocsIdle
  /\ PltIdle
  /\ BuildIdIdle
  /\ BucketSizeIdle
  /\ StringTableIdle
  /\ SortMipsIdle
  /\ VerDefIdle
  /\ PageEntryIdle
  /\ SymKind = [s \in Syms |-> "global"]
  /\ DynStrTab = StringTableSection
  /\ StrTab = StringTableSection
  /\ DynSymTab = [Symbols |-> [s \in 1..NumSyms |->
                                 [Symbol |-> s, StrTabOffset |-> s]],
                  Info |-> 1]
  /\ SymTab = [Symbols |-> <<>>, Info |-> 0]
  /\ DynsymIndex = [s \in Syms |-> s]
  /\ GnuHashTab = [Symbols |-> <<>>, NBuckets |-> 0, MaskWords |-> 0,
                   Size |-> 0]
  /\ HashTab = [Size |-> 0]
  /\ GnuHashBuf = <<>>
  /\ HashBuf = <<>>
  /\ symtabLog = <<>>
  /\ symState = [dynsym |-> 1, symtab |-> 0, gnuhash |-> 0, hash |-> 0,
                 gnuhashWritten |-> FALSE, hashWritten |-> FALSE]

SpecRelaDynCount == InitRelaDynCount /\ [][RelaDynCountNext]_vars

EhFrameLinkNext ==
  \/ \E sec \in EhSectionIds : EhAddSection(sec)
  \/ EhFinalizeContents
  \/ EhWriteTo
  \/ EhHdrWriteToAfterEhFrame

\* .eh_frame and .eh_frame_hdr of one link: the FDEs of the header are
\* those .eh_frame passes to it
SpecEhFrameLink == InitEhFrame /\ [][EhFrameLinkNext]_vars

DynStrLinkNext ==
  \/ \E sym \in Syms : DynSymAddSymbol(sym)
  \/ DynSymFinalizeContents
  \/ VerDefFinalizeContents
  \/ DynFinalizeInPass
  \/ DynWriteTo

\* .dynstr, .dynsym, .gnu.version_d and .dynamic of one link, from the
\* constructors to the written .dynamic, with and without version
\* definitions and a soname
InitDynStrLink ==
  /\ Config \in {[ConfigOfWordsize(DefaultConfig, w) EXCEPT !.IsRela = rela] :
                   w \in {4, 8}, rela \in BOOLEAN}
  /\ GotInit
  /\ MipsGotIdle
  /\ RelaDynInit
  /\ EhFrameInit
  /\ CapRelocsIdle
  /\ PltIdle
  /\ BuildIdIdle
  /\ BucketSizeIdle
  /\ StringTableIdle
  /\ SortMipsIdle
  /\ VerDefIdle
  /\ PageEntryIdle
  /\ DynInputs \in {PlainDynInputs, RichDynInputs,
                      [RichDynInputs EXCEPT !.SoName = <<>>]}
  /\ LET r == addEntries(StringTableSection, DynInputs)
     IN  /\ DynStrTab = r.tab
         /\ DynEntries = r.Entries
  /\ DynSize = 0
  /\ DynBuf = <<>>
  /\ dynState = "CREATED"
  /\ SymKind = [s \in Syms |-> "global"]
  /\ StrTab = StringTableSection
  /\ DynSymTab = [Symbols |-> <<>>, Info |-> 0]
  /\ SymTab = [Symbols |-> <<>>, Info |-> 0]
  /\ DynsymIndex = [s \in Syms |-> 0]
  /\ GnuHashTab = [Symbols |-> <<>>, NBuckets |-> 0, MaskWords |-> 0,
                   Size |-> 0]
  /\ HashTab = [Size |-> 0]
  /\ GnuHashBuf = <<>>
  /\ HashBuf = <<>>
  /\ symtabLog = <<>>
  /\ symState = [dynsym |-> 0, symtab |-> 0, gnuhash |-> 0, hash |-> 0,
                 gnuhashWritten |-> FALSE, hashWritten |-> FALSE]

SpecDynStrLink == InitDynStrLink /\ [][DynStrLinkNext]_vars

MipsPageEntryNext ==
  \/ MipsGetPageEntryOffset

\* getPageEntryOffset and the page slot for every section and symbol of
\* PageInputs; a 32-bit link has no address behind 4 GiB
InitMipsPageEntry ==
  /\ Config \in {[ConfigOfWordsize(DefaultConfig, w) EXCEPT
                    !.EMachineMips = TRUE] : w \in {4, 8}}
  /\ GotInit
  /\ MipsGotIdle
  /\ RelaDynInit
  /\ SymIdle
  /\ EhFrameInit
  /\ DynamicIdle
  /\ CapRelocsIdle
  /\ PltIdle
  /\ BuildIdIdle
  /\ BucketSizeIdle
  /\ StringTableIdle
  /\ SortMipsIdle
  /\ VerDefIdle
  /\ PageArgs \in PageInputs
  /\ Config.Is64 \/ ~LessWide(<<65536, 0>>, AddWide(PageArgs.Addr, PageArgs.Size))
  /\ PageRet = [Called |-> FALSE, Offset |-> 0, PageCount |-> 0,
                Written |-> <<0, 0>>]

SpecMipsPageEntry == InitMipsPageEntry /\ [][MipsPageEntryNext]_vars

(***************************************************************************)
(* Properties of GotSection                                                *)
(***************************************************************************)
\* The slots one logged registration reserved.
SlotsOf(e) == IF e.op = "addEntry" THEN 1 ELSE 2

RECURSIVE SlotsBefore(_, _)
\* The slots reserved by the first k - 1 registrations of log.
SlotsBefore(log, k) ==
  IF k <= 1 THEN 0 ELSE SlotsBefore(log, k - 1) + SlotsOf(log[k - 1])

\* The symbols registered with addEntry, in registration order.
GotEntryOrder == SelectSeq(gotLog, LAMBDA e : e.op = "addEntry")

\* C2: a registration issued on the .got after it has been finalized adds
\* no entry and assigns no symbol index (it is rejected as a contract
\* violation).
C2_NoRegistrationAfterFinalize ==
  [][gotState # "CREATED" =>
       UNCHANGED <<NumEntries, TlsIndexOff, GotIndex, GlobalDynIndex>>]_vars

\* C3 as stated: every symbol registered with addEntry has got_index equal
\* to the number of symbols registered with addEntry before it.
C3_GotIndexIsInsertionOrder ==
  \A i \in 1..Len(GotEntryOrder) : GotIndex[GotEntryOrder[i].sym] = i - 1

\* C3 amended: every symbol registered with addEntry has got_index equal to
\* the number of slots reserved before it: one for each earlier addEntry and
\* two for each earlier addDynTlsEntry or addTlsIndex that reserved a pair.
C3_GotIndexIsSlotsBefore ==
  \A k \in 1..Len(gotLog) :
    gotLog[k].op = "addEntry" => GotIndex[gotLog[k].sym] = SlotsBefore(gotLog, k)

\* C3 witness: a symbol registered with addEntry after a TLS pair and after
\* another addEntry.
C3_Witness ==
  \E k \in 1..Len(gotLog) :
    /\ gotLog[k].op = "addEntry"
    /\ \E j \in 1..(k - 1) : gotLog[j].op = "addEntry"
    /\ \E j \in 1..(k - 1) : gotLog[j].op # "addEntry"

(***************************************************************************)
(* Properties of MipsGotSection                                            *)
(***************************************************************************)
\* The slots partition i of the built GOT occupies, the primary one counted
\* with the header entries.
PartitionSlots(i) ==
  (IF i = 1 THEN HeaderEntriesNum ELSE 0) + getEntriesNum(Gots[i])

\* C4: after build, every partition satisfies entries x word_size <=
\* MipsGotSize, entries being the slots the partition occupies (the primary
\* one together with the header entries).
C4_PartitionsWithinMipsGotSize ==
  mipsState # "CREATED" =>
    \A i \in 1..Len(Gots) :
      PartitionSlots(i) * Config.Wordsize <= Config.MipsGotSize

(***************************************************************************)
(* Properties of the symbol tables                                         *)
(***************************************************************************)
\* C1: calling finalize a second time, with no registration in between,
\* leaves the entry list and its order, every symbol index the section
\* assigned and what the hash tables are built from as the first left them.
C1_FinalizeTwiceIsNoOp ==
  [][(symState.dynsym >= 1 /\ symState'.dynsym = symState.dynsym + 1) =>
       UNCHANGED <<DynSymTab, DynsymIndex, GnuHashTab>>]_vars

\* C5: after finalize of .dynsym the entry at zero-based position i of the
\* final order has dynsym_index i + 1, the indices of distinct entries are
\* distinct and cover exactly 1..n, and info is 1.
C5_DynsymIndexIsPosition ==
  symState.dynsym = 1 =>
    LET V == DynSymTab.Symbols
    IN  /\ \A p \in 1..Len(V) : DynsymIndex[V[p].Symbol] = (p - 1) + 1
        /\ \A p, q \in 1..Len(V) :
             p # q => DynsymIndex[V[p].Symbol] # DynsymIndex[V[q].Symbol]
        /\ {DynsymIndex[V[p].Symbol] : p \in 1..Len(V)} = 1..Len(V)
        /\ DynSymTab.Info = 1

\* a .dynsym of four symbols or more, finalized by the GNU hash table with
\* an undefined symbol moved to the front that was not the first one added
C5_Witness ==
  /\ symState.dynsym = 1
  /\ Config.HasGnuHashTab
  /\ Len(DynSymTab.Symbols) >= 4
  /\ isUndefined(DynSymTab.Symbols[1].Symbol)
  /\ DynStrTab.Strings[2] # getName(DynSymTab.Symbols[1].Symbol)

\* Whether s is local for postThunkContents.
IsLocalEntry(s) == isLocal(s) \/ bindsLocal(s)

\* C6: after postThunkContents on .symtab, info is the number of locals
\* plus one, the first info - 1 entries are locals, every later entry is a
\* non-local, and the locals and the non-locals each keep the order
\* addSymbol was called in.
C6_SymTabLocalsFirst ==
  symState.symtab = 2 =>
    LET V == SymbolsOf(SymTab.Symbols)
        NumLocals == Cardinality({p \in 1..Len(V) : IsLocalEntry(V[p])})
    IN  /\ SymTab.Info = NumLocals + 1
        /\ \A p \in 1..Len(V) : IsLocalEntry(V[p]) <=> p <= SymTab.Info - 1
        /\ SelectSeq(V, IsLocalEntry) = SelectSeq(symtabLog, IsLocalEntry)
        /\ SelectSeq(V, LAMBDA x : ~IsLocalEntry(x))
             = SelectSeq(symtabLog, LAMBDA x : ~IsLocalEntry(x))

\* a .symtab whose locals were not all added first: two locals and two
\* non-locals, a non-local added before a local
C6_Witness ==
  /\ symState.symtab = 2
  /\ Cardinality({p \in 1..Len(symtabLog) : IsLocalEntry(symtabLog[p])}) >= 2
  /\ Cardinality({p \in 1..Len(symtabLog) : ~IsLocalEntry(symtabLog[p])}) >= 2
  /\ \E p, q \in 1..Len(symtabLog) :
       p < q /\ ~IsLocalEntry(symtabLog[p]) /\ IsLocalEntry(symtabLog[q])

(***************************************************************************)
(* Properties of the hash tables                                           *)
(***************************************************************************)
RECURSIVE HashWalk(_, _, _)
\* The indices a lookup in the written .hash visits from index i on, until
\* it reads 0, leaves the chain array or has made fuel steps.
HashWalk(buf, i, fuel) ==
  IF i = 0 \/ fuel = 0 THEN <<>>
  ELSE IF i \notin DOMAIN buf.Chains THEN <<i>>
  ELSE <<i>> \o HashWalk(buf, buf.Chains[i], fuel - 1)

\* C7: in the written .hash, for every symbol of .dynsym, following the
\* chain from buckets[sysv_hash(name) mod nbucket] reaches the symbol's
\* dynsym_index before 0; every index used is within the arrays the
\* section sized at finalize; no chain has a cycle.
C7_HashLookupRoundTrip ==
  symState.hashWritten =>
    LET V == DynSymTab.Symbols
        n == HashBuf.nbucket
    IN  /\ HashBuf.nbucket = HashBuf.nchain
        /\ HashTab.Size = (2 + HashBuf.nbucket + HashBuf.nchain) * 4
        /\ \A i \in 0..(n - 1) :
             /\ HashBuf.Buckets[i] \in 0..(n - 1)
             /\ HashBuf.Chains[i] \in 0..(n - 1)
             /\ Len(HashWalk(HashBuf, i, n + 1)) <= n
        /\ \A p \in 1..Len(V) :
             LET s == V[p].Symbol
                 w == HashWalk(HashBuf,
                               HashBuf.Buckets[hashSysV(getName(s)) % n], n + 1)
             IN  \E k \in 1..Len(w) : w[k] = DynsymIndex[s]

\* a written .hash with a chain of two symbols or more
C7_Witness ==
  /\ symState.hashWritten
  /\ \E i \in 0..(HashBuf.nbucket - 1) :
       Len(HashWalk(HashBuf, HashBuf.Buckets[i], HashBuf.nchain + 1)) >= 2

RECURSIVE GnuScan(_, _)
\* The zero-based positions of the hash values a lookup in the written
\* .gnu.hash reads from position i on, up to the first value with LSB 1.
GnuScan(Values, i) ==
  IF i < 0 \/ i >= Len(Values) THEN <<>>
  ELSE IF Values[i + 1] % 2 = 1 THEN <<i>>
  ELSE <<i>> \o GnuScan(Values, i + 1)

\* Whether the lookup of s in the written .gnu.hash finds it: the scan
\* from its bucket ends in a value with LSB 1 and meets, at the dynsym
\* index of s, the hash of s but for the LSB.
GnuLookupFinds(s) ==
  LET H == hashGnu(getName(s))
      B == GnuHashBuf
  IN  /\ B.NBuckets > 0
      /\ LET b == B.Buckets[H % B.NBuckets]
             scan == GnuScan(B.Values, b - B.SymOffset)
         IN  /\ b # 0
             /\ scan # <<>>
             /\ B.Values[scan[Len(scan)] + 1] % 2 = 1
             /\ \E k \in 1..Len(scan) :
                  /\ scan[k] + B.SymOffset = DynsymIndex[s]
                  /\ B.Values[scan[k] + 1] \div 2 = H \div 2

\* C8 as stated: in the written .gnu.hash the lookup of every global
\* dynamic symbol finds it at its dynsym_index.
C8_GnuLookupFindsEverySymbol ==
  symState.gnuhashWritten =>
    \A p \in 1..Len(DynSymTab.Symbols) :
      GnuLookupFinds(DynSymTab.Symbols[p].Symbol)

\* C8, amended: in the written .gnu.hash the lookup of every hashed, that
\* is every not undefined, symbol of .dynsym finds it at its dynsym_index,
\* in a chain that starts at the bucket's index, is contiguous in .dynsym
\* order and ends with an LSB-1 value.
C8_GnuLookupFindsHashedSymbols ==
  symState.gnuhashWritten =>
    /\ GnuHashBuf.SymOffset =
         1 + Cardinality({p \in 1..Len(DynSymTab.Symbols) :
                            isUndefined(DynSymTab.Symbols[p].Symbol)})
    /\ \A p \in 1..Len(DynSymTab.Symbols) :
         ~isUndefined(DynSymTab.Symbols[p].Symbol) =>
           GnuLookupFinds(DynSymTab.Symbols[p].Symbol)

\* a written .gnu.hash behind an undefined symbol, with a chain of two
\* values or more and two buckets in use
C8_Witness ==
  /\ symState.gnuhashWritten
  /\ GnuHashBuf.SymOffset > 1
  /\ \E i, j \in 0..(GnuHashBuf.NBuckets - 1) :
       /\ i # j
       /\ GnuHashBuf.Buckets[i] # 0 /\ GnuHashBuf.Buckets[j] # 0
       /\ Len(GnuScan(GnuHashBuf.Values,
                      GnuHashBuf.Buckets[i] - GnuHashBuf.SymOffset)) >= 2

\* C9: for every hashed symbol with hash H and C = word_size x 8, the
\* written Bloom filter has bits H mod C and (H >> shift2) mod C set in
\* word (H / C) mod maskwords, whatever the number of hashed symbols, and
\* maskwords is a power of two >= 1.
C9_BloomFilterBitsSet ==
  symState.gnuhashWritten =>
    LET C == Config.Wordsize * 8
        B == GnuHashBuf
    IN  /\ B.MaskWords >= 1
        /\ \E k \in 0..8 : B.MaskWords = Pow2(k)
        /\ DOMAIN B.Bloom = 0..(B.MaskWords - 1)
        /\ \A p \in 1..Len(GnuHashTab.Symbols) :
             LET H == GnuHashTab.Symbols[p].Hash
                 W == B.Bloom[(H \div C) % B.MaskWords]
             IN  /\ H = hashGnu(getName(GnuHashTab.Symbols[p].Body))
                 /\ (H % C) \in W
                 /\ ((H \div Pow2(B.Shift2)) % C) \in W

\* a written Bloom filter of two words, both with bits set
C9_Witness ==
  /\ symState.gnuhashWritten
  /\ GnuHashBuf.MaskWords = 2
  /\ GnuHashBuf.Bloom[0] # {} /\ GnuHashBuf.Bloom[1] # {}

(***************************************************************************)
(* Properties of EhFrameSection                                            *)
(***************************************************************************)
\* The CIE of its own input section that the FDE piece id refers to.
InputCieOf(id) ==
  CHOOSE c \in EhPieceIds :
    /\ c[1] = id[1]
    /\ PieceOf(c).ID = 0
    /\ PieceOf(c).InputOff = PieceOf(id).InputOff + 4 - PieceOf(id).ID

\* The offsets of the FDEs written.
WrittenFdes == {o \in DOMAIN EhBuf : PieceOf(EhBuf[o].Piece).ID # 0}

\* C10: for every FDE written to .eh_frame at offset Off, with V the value
\* in its second word, Off + 4 - V is the offset of a written CIE: the
\* canonical CIE the FDE was attached to, which has the contents and the
\* personality of the CIE the FDE referred to in its input section.
C10_FdeCiePointerDecodes ==
  ehState = "WRITTEN" =>
    \A Off \in WrittenFdes :
      LET V == EhBuf[Off].ID
          At == Off + 4 - V
      IN  /\ At \in DOMAIN EhBuf
          /\ EhBuf[At].ID = 0
          /\ \E c \in 1..Len(Cies) :
               /\ Cies[c].Piece = EhBuf[At].Piece
               /\ OutputOff[Cies[c].Piece] = At
               /\ \E k \in 1..Len(Cies[c].FdePieces) :
                    Cies[c].FdePieces[k] = EhBuf[Off].Piece
          /\ EhBuf[At].Data = PieceOf(InputCieOf(EhBuf[Off].Piece)).Data
          /\ Personality(EhBuf[At].Piece)
               = Personality(InputCieOf(EhBuf[Off].Piece))

\* a written .eh_frame with two CIEs and an FDE whose canonical CIE came
\* from another input section and is not the first record
C10_Witness ==
  /\ ehState = "WRITTEN"
  /\ Len(Cies) >= 2
  /\ \E Off \in WrittenFdes :
       LET At == Off + 4 - EhBuf[Off].ID
       IN  /\ At \in DOMAIN EhBuf
           /\ At # 0
           /\ EhBuf[At].Piece[1] # EhBuf[Off].Piece[1]

(***************************************************************************)
(* Properties of EhFrameHeader                                             *)
(***************************************************************************)
\* The first call of addFde with address Pc.
FirstAdded(Pc) ==
  fdeLog[CHOOSE i \in 1..Len(fdeLog) :
           /\ fdeLog[i].Pc = Pc
           /\ \A j \in 1..(i - 1) : fdeLog[j].Pc # Pc]

\* C11: the table .eh_frame_hdr writes is strictly ascending by Pc, so no
\* two entries share a Pc, whatever the calls of addFde were; of the FDEs
\* that share a Pc exactly the one added first is kept; the FDE count
\* written is the number of table entries.
C11_EhFrameHdrSortedUnique ==
  ehHdrState = "WRITTEN" =>
    LET T == EhHdrBuf.Table
    IN  /\ EhHdrBuf.FdeCount = Len(T)
        /\ \A i \in 1..(Len(T) - 1) : T[i].Pc < T[i + 1].Pc
        /\ {T[i].Pc + EhHdrVA : i \in 1..Len(T)}
             = {fdeLog[i].Pc : i \in 1..Len(fdeLog)}
        /\ \A i \in 1..Len(T) :
             T[i].FdeVA + EhHdrVA = FirstAdded(T[i].Pc + EhHdrVA).FdeVA

\* a table written after calls that were neither in order nor distinct:
\* a Pc added twice with different FDEs, behind a greater Pc
C11_Witness ==
  /\ ehHdrState = "WRITTEN"
  /\ \E i, j, k \in 1..Len(fdeLog) :
       /\ i < j /\ j < k
       /\ fdeLog[i].Pc > fdeLog[j].Pc
       /\ fdeLog[j].Pc = fdeLog[k].Pc
       /\ fdeLog[j].FdeVA # fdeLog[k].FdeVA

(***************************************************************************)
(* Properties of DynamicSection                                            *)
(***************************************************************************)
\* C12: in every configuration the written .dynamic array is the
\* accumulated entries followed by exactly one DT_NULL entry: no entry
\* before the last has tag DT_NULL, and the size of the section is
\* (entries + 1) x entsize.
C12_DynamicEndsWithOneNull ==
  dynState = "WRITTEN" =>
    /\ Len(DynBuf) = Len(DynEntries) + 1
    /\ \A i \in 1..Len(DynEntries) :
         /\ DynBuf[i].d_tag = DynEntries[i].Tag
         /\ DynBuf[i].d_tag # 0
    /\ DynBuf[Len(DynBuf)].d_tag = 0
    /\ DynSize = (Len(DynEntries) + 1) * DynEntsize
    /\ DynSize = Len(DynBuf) * DynEntsize

\* a written .dynamic of a MIPS link with everything optional
C12_Witness ==
  /\ dynState = "WRITTEN"
  /\ Config.EMachineMips
  /\ DynInputs.VerDef /\ DynInputs.RelaPltSize > 0
  /\ Len(DynEntries) >= 30

(***************************************************************************)
(* Properties of RelocationSection                                         *)
(***************************************************************************)
\* The relocations in the order they were added, as writeTo fills them in.
AddedRelocs == [i \in 1..Len(Relocs) |-> WrittenReloc(Relocs[i])]

IsRelative(R) == R.r_type = "RelativeRel"

\* Every RELATIVE relocation of the written table precedes every other.
RelativeFirst ==
  \A i, j \in 1..Len(RelaBuf) :
    (IsRelative(RelaBuf[j]) /\ ~IsRelative(RelaBuf[i])) => j < i

\* C13 as stated: with sort = true every RELATIVE relocation of the written
\* table precedes every non-RELATIVE one, and the RELATIVE ones and the
\* others each keep the order they were added in.
C13_SortKeepsInsertionOrder ==
  (relaState = "WRITTEN" /\ RelaSort) =>
    /\ RelativeFirst
    /\ SelectSeq(RelaBuf, IsRelative) = SelectSeq(AddedRelocs, IsRelative)
    /\ SelectSeq(RelaBuf, LAMBDA R : ~IsRelative(R))
         = SelectSeq(AddedRelocs, LAMBDA R : ~IsRelative(R))

\* C13, amended: with sort = true every RELATIVE relocation of the written
\* table precedes every non-RELATIVE one; within each group the relocations
\* are in ascending order of symbol index, and those with the same symbol
\* index keep the order they were added in.
C13_SortBySymbolThenInsertion ==
  (relaState = "WRITTEN" /\ RelaSort) =>
    /\ RelativeFirst
    /\ \A i, j \in 1..Len(RelaBuf) :
         (i < j /\ IsRelative(RelaBuf[i]) = IsRelative(RelaBuf[j]))
           => RelaBuf[i].r_sym <= RelaBuf[j].r_sym
    /\ \A rel \in BOOLEAN, sym \in 0..NumSyms :
         SelectSeq(RelaBuf,
                   LAMBDA R : IsRelative(R) = rel /\ R.r_sym = sym)
           = SelectSeq(AddedRelocs,
                       LAMBDA R : IsRelative(R) = rel /\ R.r_sym = sym)

\* a sorted table whose relocations were added with a non-RELATIVE one
\* before a RELATIVE one, and two against one symbol behind one against a
\* symbol of greater index
C13_Witness ==
  /\ relaState = "WRITTEN" /\ RelaSort
  /\ \E i, j \in 1..Len(Relocs) :
       i < j /\ Relocs[i].Type # "RelativeRel" /\ Relocs[j].Type = "RelativeRel"
  /\ \E i, j, k \in 1..Len(Relocs) :
       /\ i < j /\ j < k
       /\ Relocs[i].Type = "GotRel" /\ Relocs[i].Sym = 2
       /\ Relocs[j].Type = "GotRel" /\ Relocs[j].Sym = 1
       /\ Relocs[k].Type = "GotRel" /\ Relocs[k].Sym = 1

(***************************************************************************)
(* Properties of CheriCapRelocsSection                                     *)
(***************************************************************************)
\* The section the step hands to addSection.
JustAdded == CapInputSections[CapAdded'[Len(CapAdded')]]

\* C14: addSection hands an input to processSection only if its size is a
\* multiple of 40 and it has 2 x (size / 40) relocations; for any other
\* input it reports one error and leaves RelocsMap and the relocations of
\* .rel(a).dyn as they were.
C14_AddSectionChecksSizeAndCount ==
  [][Len(CapAdded') = Len(CapAdded) + 1 =>
       LET S == JustAdded
           wellFormed == /\ S.Size % 40 = 0
                         /\ Len(S.Relas) = 2 * (S.Size \div 40)
       IN  /\ (CapProcessed' # CapProcessed) <=> wellFormed
           /\ (RelocsMap' # RelocsMap \/ Relocs' # Relocs) => wellFormed
           /\ ~wellFormed =>
                /\ Len(CapErrors') = Len(CapErrors) + 1
                /\ RelocsMap' = RelocsMap
                /\ Relocs' = Relocs
                /\ NumRelativeRelocs' = NumRelativeRelocs]_vars

\* records and relocations registered, then an input of 60 bytes and one
\* of 80 bytes with two relocations turned away
C14_Witness ==
  /\ Len(RelocsMap) >= 1
  /\ Len(Relocs) >= 2
  /\ \E i, j \in 1..Len(CapAdded) :
       /\ i < j
       /\ CapAdded[i] = "good"
       /\ CapAdded[j] \in {"ragged", "short"}
  /\ Len(CapErrors) >= 1
  /\ "good" \in {CapProcessed[k] : k \in 1..Len(CapProcessed)}
  /\ "ragged" \notin {CapProcessed[k] : k \in 1..Len(CapProcessed)}
  /\ "short" \notin {CapProcessed[k] : k \in 1..Len(CapProcessed)}

(***************************************************************************)
(* Properties of PltSection                                                *)
(***************************************************************************)
\* The addEntry calls made on the section sec, in order.
AddedTo(sec) == SelectSeq(pltLog, LAMBDA l : l.sec = sec)

\* sizeof(Elf_Rela) or sizeof(Elf_Rel) of the link
RelPltEntsize ==
  IF Config.IsRela THEN (IF Config.Is64 THEN 24 ELSE 12)
  ELSE (IF Config.Is64 THEN 16 ELSE 8)

\* C15: after n addEntry calls on the PLT the k-th symbol registered
\* (0-based) has plt_index k and is paired with entsize x the number of
\* relocations .rel(a).plt held when it was registered, and the size is
\* header_size + n x entry_size; the same holds of the IPLT against the
\* IRELATIVE relocation section, with header size 0 and is_in_iplt set.
C15_PltEntriesIndexedInOrder ==
  /\ Len(PltEntries) = Len(AddedTo("Plt"))
  /\ \A k \in 1..Len(PltEntries) :
       /\ PltEntries[k][1] = AddedTo("Plt")[k].sym
       /\ PltIndex[PltEntries[k][1]] = k - 1
       /\ PltEntries[k][2] = RelPltEntsize * AddedTo("Plt")[k].relocs
       /\ ~IsInIplt[PltEntries[k][1]]
  /\ getSizePlt(PltHeaderSize, PltEntries)
       = Target.PltHeaderSize + Len(AddedTo("Plt")) * Target.PltEntrySize
  /\ Len(IpltEntries) = Len(AddedTo("Iplt"))
  /\ \A k \in 1..Len(IpltEntries) :
       /\ IpltEntries[k][1] = AddedTo("Iplt")[k].sym
       /\ PltIndex[IpltEntries[k][1]] = k - 1
       /\ IpltEntries[k][2] = RelPltEntsize * AddedTo("Iplt")[k].relocs
       /\ IsInIplt[IpltEntries[k][1]]
  /\ getSizePlt(0, IpltEntries)
       = Len(AddedTo("Iplt")) * Target.PltEntrySize

\* two PLT entries, the second registered when .rel(a).plt held one
\* relocation, and an IPLT entry
C15_Witness ==
  /\ Len(PltEntries) = 2
  /\ PltEntries[2][2] # 0
  /\ PltIndex[PltEntries[2][1]] = 1
  /\ Len(IpltEntries) = 1
  /\ IsInIplt[IpltEntries[1][1]]

(***************************************************************************)
(* Properties of BuildIdSection                                            *)
(***************************************************************************)
Hashing == buildIdState \in {"HASHING", "DONE"} /\ Config.BuildId \in HashKinds

\* C16: the chunks hashed are consecutive pieces of the image that cover
\* it, each of exactly 1 MiB but the last, which is not empty and of at
\* most 1 MiB (three chunks for an image of 3 MiB, none for an empty one);
\* the build-id is the hash of the per-chunk hashes in chunk order.
C16_ChunksCoverImageInOrder ==
  Hashing =>
    /\ (ImageSize = 0) <=> (Chunks = <<>>)
    /\ Len(Chunks) > 0 =>
         /\ Chunks[1].Off = 0
         /\ Chunks[Len(Chunks)].Off + Chunks[Len(Chunks)].Size = ImageSize
         /\ Chunks[Len(Chunks)].Size \in 1..1048576
    /\ \A k \in 1..(Len(Chunks) - 1) :
         /\ Chunks[k].Size = 1048576
         /\ Chunks[k + 1].Off = Chunks[k].Off + Chunks[k].Size
    /\ ImageSize = 3 * 1048576 => Len(Chunks) = 3
    /\ buildIdState = "DONE" =>
         BuildIdHashBuf = [Fn |-> Config.BuildId,
                    Of |-> [k \in 1..Len(Chunks) |->
                              [Fn |-> Config.BuildId, Of |-> Chunks[k]]]]

\* the build-id of an image of exactly 3 MiB, hashed
C16_Witness ==
  /\ Hashing /\ buildIdState = "DONE"
  /\ ImageSize = 3145728
  /\ Len(Chunks) = 3

(***************************************************************************)
(* Properties of the page entries of MipsGotSection                        *)
(***************************************************************************)
\* The finalized MIPS GOT is one partition holding the page entries of the
\* output section of size 0x30000, two local entries and one global entry.
OneSectionTwoLocalsOneGlobal ==
  /\ mipsState = "FINALIZED"
  /\ Len(Gots) = 1
  /\ MapKeys(Gots[1].PageIndexMap) = {1}
  /\ OutputSectionSize(1) = 196608
  /\ Len(Gots[1].Local16) = 2
  /\ Len(Gots[1].Global) = 1
  /\ Gots[1].Local32 = <<>> /\ Gots[1].Relocs = <<>>
  /\ Gots[1].Tls = <<>> /\ Gots[1].DynTlsSymbols = <<>>

\* C17 as stated: 4 page entries are reserved for the output section of
\* size 0x30000, and the GOT with that section, two local16 entries and one
\* global entry occupies (header + 7) x word_size bytes.
C17_FourPageEntries ==
  OneSectionTwoLocalsOneGlobal =>
    /\ getPageEntriesNum(Gots[1]) = 4
    /\ MipsGotSize = (HeaderEntriesNum + 7) * Config.Wordsize

\* C17, amended: 5 page entries are reserved for the output section of
\* size 0x30000, and the GOT with that section, two local16 entries and one
\* global entry occupies (header + 8) x word_size bytes.
C17_FivePageEntries ==
  OneSectionTwoLocalsOneGlobal =>
    /\ getPageEntriesNum(Gots[1]) = 5
    /\ MipsGotSize = (HeaderEntriesNum + 8) * Config.Wordsize

C17_Witness ==
  /\ OneSectionTwoLocalsOneGlobal
  /\ MipsGotSize = 10 * Config.Wordsize

(***************************************************************************)
(* Properties of RELATIVE relocations                                      *)
(***************************************************************************)
\* The RELATIVE relocations of the table written.
WrittenRelative ==
  {RelaBuf[i] : i \in {k \in 1..Len(RelaBuf) :
                         RelaBuf[k].r_type = "RelativeRel"}}

\* The symbols of the global entries of the partitions of the MIPS GOT
\* behind the first whose slot is at offset off.
SecondaryGlobalAt(off) ==
  {sym \in MipsSyms :
     \E g \in 2..Len(Gots) : \E k \in 1..Len(Gots[g].Global) :
       /\ Gots[g].Global[k].key = sym
       /\ Gots[g].Global[k].idx * Config.Wordsize = off}

\* C18 as stated: every RELATIVE relocation is written with symbol index 0.
C18_RelativeHasNoSymbol ==
  \A R \in WrittenRelative : R.r_sym = 0

\* C18, amended: a RELATIVE relocation is written with symbol index 0 when
\* it was registered for a page or local entry of the MIPS GOT or for the
\* location slot of a cap-reloc record; one registered for a global entry
\* of a partition of the MIPS GOT behind the first, or for the target slot
\* of a cap-reloc record, is written with the .dynsym index of its symbol.
C18_RelativeSymbolBySlot ==
  \A R \in WrittenRelative :
    IF R.r_offset[1] = "CapRelocs" /\ R.r_offset[2] % 40 = 8
      THEN R.r_sym
             = DynsymIndex[RelocsMap[R.r_offset[2] \div 40 + 1].Val.Target]
    ELSE IF R.r_offset[1] = "MipsGot" /\ SecondaryGlobalAt(R.r_offset[2]) # {}
      THEN \E sym \in SecondaryGlobalAt(R.r_offset[2]) :
             R.r_sym = DynsymIndex[sym]
    ELSE R.r_sym = 0

\* a table with a RELATIVE relocation of a global entry of the second
\* partition and one of a cap-reloc target slot, both with a symbol index,
\* and one of a cap-reloc location slot
C18_Witness ==
  /\ relaState = "WRITTEN"
  /\ \E R \in WrittenRelative :
       R.r_offset[1] = "MipsGot" /\ R.r_sym # 0
  /\ \E R \in WrittenRelative :
       R.r_offset[1] = "CapRelocs" /\ R.r_offset[2] % 40 = 8 /\ R.r_sym # 0
  /\ \E R \in WrittenRelative :
       R.r_offset[1] = "CapRelocs" /\ R.r_offset[2] % 40 = 0 /\ R.r_sym = 0

(***************************************************************************)
(* Properties of the indices cached in symbols                             *)
(***************************************************************************)
\* The step is GotSection::finalizeContents.
GotFinalizeStep == gotState = "CREATED" /\ gotState' = "FINALIZED"

\* The step is the finalizeContents of .dynsym.
DynSymFinalizeStep == symState.dynsym = 0 /\ symState'.dynsym = 1

\* C19, for the indices of the GOT and of .dynsym: got_index,
\* global_dyn_index and dynsym_index of a symbol are written at most once,
\* and only by the finalize of the section that owns them; got_index in
\* particular is not written when the symbol is registered.
C19_IndicesWrittenOnceByFinalize ==
  [][\A s \in Syms :
       /\ GotIndex'[s] # GotIndex[s] =>
            GotIndex[s] = NoIndex /\ GotFinalizeStep
       /\ GlobalDynIndex'[s] # GlobalDynIndex[s] =>
            GlobalDynIndex[s] = NoIndex /\ GotFinalizeStep
       /\ DynsymIndex'[s] # DynsymIndex[s] => DynSymFinalizeStep]_vars

(***************************************************************************)
(* Properties of the TLS registrations of GotSection                       *)
(***************************************************************************)
\* The step is a call of addDynTlsEntry or addTlsIndex.
TlsCallStep == tlsCall'.n = tlsCall.n + 1

\* C20: the first addDynTlsEntry(sym) returns true, sets the
\* global_dyn_index of sym to the entry count and adds two slots; a later
\* one for the same symbol returns false and changes neither the count nor
\* the index.  The first addTlsIndex reserves two slots at the entry count;
\* a later one returns false, reserves nothing and leaves the offset.
C20_TlsRegistrationsAreIdempotent ==
  [][TlsCallStep =>
       LET c == tlsCall'
           first == c.sym \notin tlsCall.called
       IN  IF c.op = "addDynTlsEntry"
             THEN IF first
                    THEN /\ c.ret
                         /\ GlobalDynIndex'[c.sym] = NumEntries
                         /\ NumEntries' = NumEntries + 2
                    ELSE /\ ~c.ret
                         /\ NumEntries' = NumEntries
                         /\ GlobalDynIndex' = GlobalDynIndex
             ELSE IF first
                    THEN /\ c.ret
                         /\ TlsIndexOff' = NumEntries * Config.Wordsize
                         /\ NumEntries' = NumEntries + 2
                    ELSE /\ ~c.ret
                         /\ NumEntries' = NumEntries
                         /\ TlsIndexOff' = TlsIndexOff]_vars

\* a second addDynTlsEntry for a symbol has just returned false, behind an
\* addTlsIndex and with other entries in the GOT
C20_Witness ==
  /\ tlsCall.op = "addDynTlsEntry" /\ ~tlsCall.ret
  /\ GlobalDynIndex[tlsCall.sym] # NoIndex
  /\ GlobalDynIndex[tlsCall.sym] > 0
  /\ TlsIndexOff # NoIndex
  /\ tlsCall.n = 3

(***************************************************************************)
(* Properties of the chunk tasks of BuildIdSection                         *)
(***************************************************************************)
\* C21: the chunk tasks each write HashSize bytes of the buffer of hashes
\* at their own place, no two of them a common byte and none beyond the
\* buffer; the combining hash is taken when all of them have run; and the
\* build-id is the hash of the hashes of the chunks of the image in chunk
\* order, whatever order the tasks completed in.
C21_ChunkTasksCommute ==
  Hashing =>
    /\ \A i \in 1..Len(HashWrites) :
         /\ HashWrites[i].Dest = HashWrites[i].Task * HashSize
         /\ HashWrites[i].Size = HashSize
         /\ HashWrites[i].Dest + HashWrites[i].Size <= Len(Chunks) * HashSize
    /\ \A i, j \in 1..Len(HashWrites) :
         i # j =>
           \/ HashWrites[i].Dest + HashWrites[i].Size <= HashWrites[j].Dest
           \/ HashWrites[j].Dest + HashWrites[j].Size <= HashWrites[i].Dest
    /\ buildIdState = "DONE" =>
         LET C == split(ArrayRef(0, ImageSize), ChunkSize)
         IN  /\ TasksDone = 0..(Len(C) - 1)
             /\ Len(HashWrites) = Len(C)
             /\ BuildIdHashBuf = HashFn([k \in 1..Len(C) |-> HashFn(C[k])])

\* a build-id whose three chunk tasks completed last chunk first, the
\* first chunk second
C21_Witness ==
  /\ Hashing /\ buildIdState = "DONE"
  /\ Len(HashWrites) = 3
  /\ HashWrites[1].Task = 2
  /\ HashWrites[2].Task = 0

\* The entropy source has failed in writeBuildId.
EntropyFailed ==
  \E k \in 1..Len(BuildIdErrors) : BuildIdErrors[k] = "entropy source failure"

\* C22: when the build-id kind is uuid and the entropy source fails the
\* link stops there: writeBuildId does not return with the failure on the
\* list of errors.
C22_EntropyFailureIsFatal ==
  (Config.BuildId = "Uuid" /\ EntropyFailed) => buildIdState = "FATAL"

(***************************************************************************)
(* Properties of the records of CheriCapRelocsSection                      *)
(***************************************************************************)
\* The dynamic relocations registered for the byte at off of __cap_relocs.
CapDynRelocsAt(off) ==
  {k \in 1..Len(Relocs) :
     Relocs[k].InputSec = "CapRelocs" /\ Relocs[k].OffsetInSec = off}

\* Record k of RelocsMap has one RELATIVE relocation for its location slot
\* if loc and none otherwise, and likewise for its target slot and tgt.
SlotsRelocated(k, loc, tgt) ==
  /\ Cardinality(CapDynRelocsAt((k - 1) * 40)) = IF loc THEN 1 ELSE 0
  /\ Cardinality(CapDynRelocsAt((k - 1) * 40 + 8)) = IF tgt THEN 1 ELSE 0
  /\ \A r \in CapDynRelocsAt((k - 1) * 40) \cup
              CapDynRelocsAt((k - 1) * 40 + 8) :
       Relocs[r].Type = "RelativeRel"

\* C23 as stated: every record has a RELATIVE relocation for its location
\* slot exactly when the link is PIC or PIE, and one for its target slot
\* exactly when the target is preemptible or the link is PIC or PIE.
C23_TargetSlotWhenPreemptible ==
  capState # "ABORTED" =>
    \A k \in 1..Len(RelocsMap) :
      SlotsRelocated(k, Config.Pic \/ Config.Pie,
                     isPreemptible(RelocsMap[k].Val.Target)
                       \/ Config.Pic \/ Config.Pie)

\* C23, amended: every record has a RELATIVE relocation for its location
\* slot exactly when the link is PIC or PIE, and one for its target slot
\* exactly when the target is a symbol of a shared library or the link is
\* PIC or PIE.
C23_TargetSlotWhenShared ==
  capState # "ABORTED" =>
    \A k \in 1..Len(RelocsMap) :
      SlotsRelocated(k, Config.Pic \/ Config.Pie,
                     CapSymbols[RelocsMap[k].Val.Target].Kind = "Shared"
                       \/ Config.Pic \/ Config.Pie)

\* a link that is neither PIC nor PIE with a record against a symbol of a
\* shared library that has a copy relocation, and a record against a
\* symbol of the link itself
C23_Witness ==
  /\ ~Config.Pic /\ ~Config.Pie
  /\ capState = "CREATED"
  /\ \E j, k \in 1..Len(RelocsMap) :
       /\ CapSymbols[RelocsMap[j].Val.Target].Kind = "Shared"
       /\ NeedsCopy[RelocsMap[j].Val.Target]
       /\ CapDynRelocsAt((j - 1) * 40 + 8) # {}
       /\ CapSymbols[RelocsMap[k].Val.Target].Kind = "DefinedRegular"
       /\ CapDynRelocsAt((k - 1) * 40 + 8) = {}

\* C24 as stated: the record written for an entry of RelocsMap holds the
\* address of the location, or zero if the location slot has a dynamic
\* relocation; the address of the target, or zero if the target slot has
\* one; the offset into the target; the size of the target; and 1 << 63
\* if the target is a function, 0 if not.
C24_WrittenRecordFields ==
  capState = "WRITTEN" =>
    /\ Len(CapBuf) = Len(RelocsMap)
    /\ \A k \in 1..Len(CapBuf) :
         LET Key == RelocsMap[k].Key
             Val == RelocsMap[k].Val
         IN  /\ CapBuf[k].Location =
                  IF CapDynRelocsAt((k - 1) * 40) # {} THEN U64(0)
                  ELSE U64(getVA(Key.BaseSym, Key.Offset))
             /\ CapBuf[k].Object =
                  IF CapDynRelocsAt((k - 1) * 40 + 8) # {} THEN U64(0)
                  ELSE U64(getVA(Val.Target, Val.TargetSymbolOffset))
             /\ CapBuf[k].Offset = U64(Val.Offset)
             /\ CapSymbolValues[Val.Target].Size # 0 =>
                  CapBuf[k].Size = U64(CapSymbolValues[Val.Target].Size)
             /\ CapBuf[k].Permissions =
                  IF CapSymbolValues[Val.Target].IsFunc
                    THEN <<32768, 0, 0, 0>> ELSE <<0, 0, 0, 0>>

(***************************************************************************)
(* Properties of getBucketSize                                             *)
(***************************************************************************)
\* n is prime: it is above 1 and no d from 2 up to its square root
\* divides it.
IsPrime(n) == n > 1 /\ \A d \in 2..n : d > n \div d \/ n % d # 0

\* The numbers of buckets to choose from.
BucketSizes ==
  {131071, 65521, 32749, 16381, 8191, 4093, 2039, 1021, 509, 251, 127, 61,
   31, 13, 7, 3, 1}

\* Those of them that are prime.
PrimeBucketSizes == {N \in BucketSizes : IsPrime(N)}

RECURSIVE SizeOfStrings(_, _)
SizeOfStrings(Strings, k) ==
  IF k > Len(Strings) THEN 0
  ELSE Len(Strings[k]) + 1 + SizeOfStrings(Strings, k + 1)

\* C26: the table starts with the empty string at offset 0; its size is
\* the total of length + 1 over its strings and no call of addString
\* lowers it; a call with hashing for a string that an earlier call with
\* hashing (or the constructor, for the empty string) stored returns that
\* call's offset and leaves the size; and in the bytes written, every
\* offset addString returned is where its string starts, with a NUL behind
\* it.
C26_StringTableOffsetsStayValid ==
  /\ StrTab.Strings[1] = <<>>
  /\ StrTab.Size = SizeOfStrings(StrTab.Strings, 1)
  /\ \A j \in 1..Len(strLog) :
       /\ strLog[j].After >= strLog[j].Before
       /\ strLog[j].Before = IF j = 1 THEN 1 ELSE strLog[j - 1].After
       /\ strLog[j].Ret < strLog[j].After
       /\ (strLog[j].HashIt /\ strLog[j].S = <<>>) =>
            strLog[j].Ret = 0 /\ strLog[j].After = strLog[j].Before
       /\ \A i \in 1..(j - 1) :
            (strLog[i].S = strLog[j].S /\ strLog[i].HashIt
               /\ strLog[j].HashIt) =>
              /\ strLog[j].Ret = strLog[i].Ret
              /\ strLog[j].After = strLog[j].Before
  /\ strTabState = "WRITTEN" =>
       /\ Len(StrTabBuf) = StrTab.Size
       /\ StrTabBuf[1] = 0
       /\ \A j \in 1..Len(strLog) :
            /\ \A c \in 1..Len(strLog[j].S) :
                 StrTabBuf[strLog[j].Ret + c] = strLog[j].S[c]
            /\ StrTabBuf[strLog[j].Ret + Len(strLog[j].S) + 1] = 0

\* a written table to which a string was added without hashing, then
\* twice with hashing, the second time for the offset of the first
C26_Witness ==
  /\ strTabState = "WRITTEN"
  /\ Len(strLog) = 4
  /\ strLog[1].S = <<97, 98>> /\ ~strLog[1].HashIt
  /\ strLog[2].S = <<97, 98>> /\ strLog[2].HashIt
  /\ strLog[2].Ret # strLog[1].Ret
  /\ strLog[3].S = <<98, 97>>
  /\ strLog[4].S = <<97, 98>> /\ strLog[4].HashIt
  /\ strLog[4].Ret = strLog[2].Ret
  /\ strLog[4].After = strLog[4].Before

(***************************************************************************)
(* Properties of GnuHashTableSection::addSymbols                           *)
(***************************************************************************)
\* The position of symbol sym in the table V.
PositionIn(V, sym) == CHOOSE i \in 1..Len(V) : V[i].Symbol = sym

\* The undefined symbols among the entries of V.
UndefinedIn(V) == {i \in 1..Len(V) : isUndefined(V[i].Symbol)}

\* C27: with a GNU hash table, the finalize of .dynsym leaves the entries
\* it had in another order: the undefined symbols first, in the order they
\* had, then the others by hash mod nbuckets, those of one bucket in the
\* order they had.  The symoffset of the written header is the number of
\* undefined symbols plus one, the index of the first hashed symbol.
C27_AddSymbolsPermutes ==
  /\ [][(DynSymFinalizeStep /\ Config.HasGnuHashTab) =>
          LET In == DynSymTab.Symbols
              Out == DynSymTab'.Symbols
              U == Cardinality(UndefinedIn(In))
              B(e) == hashGnu(getName(e.Symbol)) % GnuHashTab'.NBuckets
          IN  /\ Len(Out) = Len(In)
              /\ {Out[i] : i \in 1..Len(Out)} = {In[i] : i \in 1..Len(In)}
              /\ UndefinedIn(Out) = 1..U
              /\ \A i, j \in 1..U :
                   i < j => PositionIn(In, Out[i].Symbol)
                              < PositionIn(In, Out[j].Symbol)
              /\ \A i, j \in (U + 1)..Len(Out) :
                   i < j =>
                     \/ B(Out[i]) < B(Out[j])
                     \/ /\ B(Out[i]) = B(Out[j])
                        /\ PositionIn(In, Out[i].Symbol)
                             < PositionIn(In, Out[j].Symbol)]_vars
  /\ [](symState.gnuhashWritten =>
          LET V == DynSymTab.Symbols
              U == Cardinality(UndefinedIn(V))
          IN  /\ GnuHashBuf.SymOffset = U + 1
              /\ U < Len(V) =>
                   /\ ~isUndefined(V[U + 1].Symbol)
                   /\ DynsymIndex[V[U + 1].Symbol] = GnuHashBuf.SymOffset)

\* a written .gnu.hash over two undefined symbols and three hashed ones in
\* three buckets, where the finalize moved an undefined symbol forward and
\* put the hashed symbols in another order than they were added in
C27_Witness ==
  /\ symState.gnuhashWritten
  /\ GnuHashBuf.NBuckets = 3
  /\ GnuHashBuf.SymOffset = 3
  /\ Len(DynSymTab.Symbols) = 5
  /\ \E i, j \in 3..5 :
       /\ i < j
       /\ DynSymTab.Symbols[i].StrTabOffset > DynSymTab.Symbols[j].StrTabOffset
  /\ \E i \in 1..2 : \E j \in 3..5 :
       DynSymTab.Symbols[i].StrTabOffset > DynSymTab.Symbols[j].StrTabOffset

(***************************************************************************)
(* Properties of MipsGotSection::build                                     *)
(***************************************************************************)
\* The slots the entries of map m hold, in the order of the map: the first
\* slot of each and how many it takes.
Spans(m, width(_)) ==
  [i \in 1..Len(m) |-> [first |-> m[i].idx, width |-> width(m[i].key)]]

\* The slots of FileGot G in the order build numbers its maps in.
GotSpans(G) ==
  Spans(G.PageIndexMap, LAMBDA o : getMipsPageCount(OutputSectionSize(o)))
    \o Spans(G.Local16, LAMBDA k : 1) \o Spans(G.Global, LAMBDA k : 1)
    \o Spans(G.Relocs, LAMBDA k : 1) \o Spans(G.Tls, LAMBDA k : 1)
    \o Spans(G.DynTlsSymbols, LAMBDA k : 2)

\* The slots of every partition, the primary one first.
AllSpans == Flatten([i \in 1..Len(Gots) |-> GotSpans(Gots[i])])

\* The slot after the last one of the spans sp, which start at base.
EndOf(sp, base) ==
  IF sp = <<>> THEN base ELSE sp[Len(sp)].first + sp[Len(sp)].width

\* The first slot of partition k as build leaves it in its entries: that of
\* its first entry.
FirstSlot(k) == GotSpans(Gots[k])[1].first

\* C28: after build the slots are numbered without gaps from
\* HeaderEntriesNum on, partition after partition and inside a partition
\* in the order pages, local16, global, reloc-only, TLS, dynamic TLS (two
\* slots each); a later partition records the running total as its
\* StartIndex.  So no two entries share a slot, none has a header slot,
\* and the section size after finalize is the running total times the
\* word size.
C28_SlotsContiguous ==
  (mipsState \in {"BUILT", "FINALIZED"} /\ Gots # <<>>) =>
    LET sp == AllSpans
        Slots(i) == sp[i].first..(sp[i].first + sp[i].width - 1)
    IN  /\ sp # <<>> => sp[1].first = HeaderEntriesNum
        /\ \A i \in 1..(Len(sp) - 1) :
             sp[i + 1].first = sp[i].first + sp[i].width
        /\ \A k \in 2..Len(Gots) :
             /\ Gots[k].StartIndex
                  = EndOf(Flatten([j \in 1..(k - 1) |-> GotSpans(Gots[j])]),
                          HeaderEntriesNum)
             /\ GotSpans(Gots[k]) # <<>> => FirstSlot(k) = Gots[k].StartIndex
        /\ \A i, j \in 1..Len(sp) : i # j => Slots(i) \cap Slots(j) = {}
        /\ \A i \in 1..Len(sp) : Slots(i) \cap (0..(HeaderEntriesNum - 1)) = {}
        /\ mipsState = "FINALIZED" =>
             MipsGotSize = EndOf(sp, HeaderEntriesNum) * Config.Wordsize

\* a finalized GOT where the partition after one that ends in a dynamic
\* TLS entry holds a local entry and a TLS entry
C28_Witness ==
  /\ mipsState = "FINALIZED"
  /\ \E k \in 1..(Len(Gots) - 1) :
       /\ Gots[k].DynTlsSymbols # <<>>
       /\ Len(Gots[k + 1].Local16) = 1
       /\ Len(Gots[k + 1].Tls) = 1

\* The symbols some FileGot of gots holds as a global or reloc-only entry.
GlobalOrRelocOnly(gots) ==
  UNION {MapKeys(gots[i].Global) \cup MapKeys(gots[i].Relocs) :
           i \in 1..Len(gots)}

\* C29: build leaves every symbol that an object file registered as a
\* global or reloc-only entry, and that is still preemptible, with one
\* entry in the primary GOT, among its global or among its reloc-only
\* entries and not both, and with the index of that entry as GotIndex; it
\* leaves no reloc-only entry in another GOT than the primary.
C29_OnePrimarySlotPerGlobal ==
  [][(MipsBuild /\ Gots # <<>>) =>
       LET PrimGot == Gots'[1]
       IN  /\ \A sym \in GlobalOrRelocOnly(Gots) \cap Preemptible :
                /\ Cardinality({i \in 1..Len(PrimGot.Global) :
                                  PrimGot.Global[i].key = sym})
                     + Cardinality({i \in 1..Len(PrimGot.Relocs) :
                                      PrimGot.Relocs[i].key = sym}) = 1
                /\ \E e \in {PrimGot.Global[i] : i \in 1..Len(PrimGot.Global)}
                          \cup {PrimGot.Relocs[i] :
                                  i \in 1..Len(PrimGot.Relocs)} :
                     e.key = sym /\ GotIndex'[sym] = e.idx
           /\ \A k \in 2..Len(Gots') : Gots'[k].Relocs = <<>>]_vars

\* a built GOT of two partitions whose primary one holds a global entry
\* and, for a symbol that is a global entry of the other partition, a
\* reloc-only entry
C29_Witness ==
  /\ mipsState = "BUILT"
  /\ Len(Gots) >= 2
  /\ Len(Gots[1].Global) = 1
  /\ Len(Gots[1].Relocs) = 1
  /\ Gots[1].Relocs[1].key \in MapKeys(Gots[2].Global)
  /\ GotIndex[Gots[1].Relocs[1].key] = Gots[1].Relocs[1].idx

\* C30: build leaves every object file that registered entries with a
\* MipsGotIndex that names a GOT holding all of the file's entries: the
\* output sections of its page entries, its local entries (those indexed
\* by 32 bits and the globals that are no longer preemptible among them),
\* its global entries, its TLS entries and its dynamic TLS entries.
C30_FileGotHoldsFileEntries ==
  [][(MipsBuild /\ Gots # <<>>) =>
       \A i \in 1..Len(Gots) :
         LET G == Gots[i]
             k == MipsGotIndex'[G.File] + 1
             Migrated == {<<sym, 0>> : sym \in MapKeys(G.Global) \ Preemptible}
         IN  /\ k \in 1..Len(Gots')
             /\ MapKeys(G.PageIndexMap) \subseteq MapKeys(Gots'[k].PageIndexMap)
             /\ MapKeys(G.Local16) \cup MapKeys(G.Local32) \cup Migrated
                  \subseteq MapKeys(Gots'[k].Local16)
             /\ MapKeys(G.Global) \cap Preemptible
                  \subseteq MapKeys(Gots'[k].Global)
             /\ MapKeys(G.Tls) \subseteq MapKeys(Gots'[k].Tls)
             /\ MapKeys(G.DynTlsSymbols)
                  \subseteq MapKeys(Gots'[k].DynTlsSymbols)]_vars

\* a built GOT where the first file's entries are in the primary partition
\* and the second file's in the next one, a global that a copy relocation
\* made local among them
C30_Witness ==
  /\ mipsState = "BUILT"
  /\ MipsGotIndex[1] = 0
  /\ MipsGotIndex[2] = 1
  /\ Len(Gots) = 2
  /\ Gots[1].Tls # <<>>
  /\ \E sym \in BuildPreemptible \ Preemptible :
       <<sym, 0>> \in MapKeys(Gots[2].Local16)

(***************************************************************************)
(* Properties of the dynamic relocations of MipsGotSection::build          *)
(***************************************************************************)
\* The relocations registered against the MIPS GOT at slot.
MipsRelocsAt(slot) ==
  SelectSeq(Relocs, LAMBDA r : r.InputSec = "MipsGot"
                                 /\ r.OffsetInSec = slot * Config.Wordsize)

\* Slot slot has the one relocation r and no other.
OnlyReloc(slot, r) == MipsRelocsAt(slot) = <<r>>

\* The page slots of FileGot G have their RELATIVE relocation each, against
\* the output section with the offset of the page as addend.
PagesRelocated(G) ==
  \A i \in 1..Len(G.PageIndexMap) :
    LET L == G.PageIndexMap[i]
    IN  \A PI \in 0..(getMipsPageCount(OutputSectionSize(L.key)) - 1) :
          OnlyReloc(L.idx + PI,
                    DynamicRelocPage("RelativeRel", "MipsGot",
                                     (L.idx + PI) * Config.Wordsize, L.key,
                                     PI * 65536))

\* The local slots of FileGot G have their RELATIVE relocation each, which
\* takes the address of the symbol plus the addend.
LocalsRelocated(G) ==
  \A i \in 1..Len(G.Local16) :
    LET P == G.Local16[i]
    IN  OnlyReloc(P.idx, DynamicReloc("RelativeRel", "MipsGot",
                                      P.idx * Config.Wordsize, TRUE,
                                      P.key[1], P.key[2]))

\* The global slots of FileGot G have their RELATIVE relocation each.
GlobalsRelocated(G) ==
  \A i \in 1..Len(G.Global) :
    LET P == G.Global[i]
    IN  OnlyReloc(P.idx, DynamicReloc("RelativeRel", "MipsGot",
                                      P.idx * Config.Wordsize, FALSE,
                                      P.key, 0))

\* The slots of the page, local, global and reloc-only entries of G.
NonTlsSlots(G) ==
  LET sp == Spans(G.PageIndexMap,
                  LAMBDA o : getMipsPageCount(OutputSectionSize(o)))
              \o Spans(G.Local16, LAMBDA k : 1) \o Spans(G.Global, LAMBDA k : 1)
              \o Spans(G.Relocs, LAMBDA k : 1)
  IN  UNION {sp[i].first..(sp[i].first + sp[i].width - 1) : i \in 1..Len(sp)}

\* The slots of the page and local entries of G.
LocalPartSlots(G) ==
  LET sp == Spans(G.PageIndexMap,
                  LAMBDA o : getMipsPageCount(OutputSectionSize(o)))
              \o Spans(G.Local16, LAMBDA k : 1)
  IN  UNION {sp[i].first..(sp[i].first + sp[i].width - 1) : i \in 1..Len(sp)}

\* C31 as stated: in a PIC link every page slot and every local slot of
\* every partition has a RELATIVE relocation, and every global slot of a
\* partition after the primary one has one in any link.
C31_RelativeInEveryPartition ==
  (mipsState \in {"BUILT", "FINALIZED"}) =>
    /\ Config.Pic =>
         \A k \in 1..Len(Gots) : PagesRelocated(Gots[k]) /\ LocalsRelocated(Gots[k])
    /\ \A k \in 2..Len(Gots) : GlobalsRelocated(Gots[k])

\* C31: in a PIC link every page slot and every local slot of every
\* partition after the primary one has a RELATIVE relocation, the page
\* slots with the offset of the page in the output section as addend;
\* every global slot of a partition after the primary one has a RELATIVE
\* relocation in any link.  The page, local, global and reloc-only slots
\* of the primary partition have no relocation, and outside PIC links the
\* page and local slots of no partition have one.
C31_RelativeInSecondaryPartitions ==
  (mipsState \in {"BUILT", "FINALIZED"}) =>
    /\ Config.Pic =>
         \A k \in 2..Len(Gots) : PagesRelocated(Gots[k]) /\ LocalsRelocated(Gots[k])
    /\ \A k \in 2..Len(Gots) : GlobalsRelocated(Gots[k])
    /\ Gots # <<>> => \A slot \in NonTlsSlots(Gots[1]) : MipsRelocsAt(slot) = <<>>
    /\ ~Config.Pic =>
         \A k \in 1..Len(Gots) :
           \A slot \in LocalPartSlots(Gots[k]) : MipsRelocsAt(slot) = <<>>

\* a built GOT of a PIC link whose primary partition holds a local entry
\* and whose second partition holds a page entry and a local entry
C31_Witness ==
  /\ mipsState = "BUILT"
  /\ Config.Pic
  /\ Len(Gots) >= 2
  /\ Gots[1].Local16 # <<>>
  /\ Gots[2].PageIndexMap # <<>>
  /\ Gots[2].Local16 # <<>>

(***************************************************************************)
(* Properties of MipsGotSection::writeTo                                   *)
(***************************************************************************)
\* The word writeTo left in slot.
MipsSlot(slot) == MipsBuf[slot + 1]

\* C32: in the written MIPS GOT a TLS slot holds the address of its symbol
\* less 0x7000 when no relocation was registered for it and zero when one
\* was; a module-index slot (that of addTlsIndex, or the first slot of a
\* dynamic TLS entry) holds 1 when no relocation was registered for it and
\* zero when one was.
C32_TlsSlotsZeroWhenRelocated ==
  mipsState = "WRITTEN" =>
    \A k \in 1..Len(Gots) :
      /\ \A i \in 1..Len(Gots[k].Tls) :
           LET P == Gots[k].Tls[i]
           IN  MipsSlot(P.idx) =
                 IF MipsRelocsAt(P.idx) = <<>>
                   THEN writeUint(MipsSymVA[P.key] - 28672)
                   ELSE writeUint(0)
      /\ \A i \in 1..Len(Gots[k].DynTlsSymbols) :
           LET P == Gots[k].DynTlsSymbols[i]
           IN  MipsSlot(P.idx) =
                 IF MipsRelocsAt(P.idx) = <<>> THEN writeUint(1)
                 ELSE writeUint(0)

(***************************************************************************)
(* Properties of sortMipsSymbols                                           *)
(***************************************************************************)
\* C36: sortMipsSymbols is a strict weak ordering: it does not hold of an
\* entry and itself, and it does not hold of two entries both ways round,
\* whichever of the two symbols are in the GOT.
C36_SortMipsSymbolsIsStrict ==
  CmpArgs # <<>> =>
    LET L == CmpArgs[1]
        R == CmpArgs[2]
    IN  /\ L = R => ~CmpRet
        /\ ~(CmpRet /\ sortMipsSymbols(R, L))

\* The key the sort of .dynsym on MIPS is described by: 0 for a symbol that
\* is not in the GOT, its GotIndex otherwise (header slots make it >= 2).
MipsSortKey(sym) == IF isInGot(sym) THEN GotIndex[sym] ELSE 0

\* C33: on MIPS without a GNU hash table the finalize of .dynsym leaves the
\* entries with the symbols that are not in the GOT before those that are,
\* the latter by ascending GotIndex, and entries of equal key (those that
\* are not in the GOT among them) in the order they were added in.
C33_MipsDynSymStableOrder ==
  [][(DynSymFinalizeStep /\ Config.EMachineMips /\ ~Config.HasGnuHashTab) =>
       LET In == DynSymTab.Symbols
           Out == DynSymTab'.Symbols
       IN  /\ Len(Out) = Len(In)
           /\ {Out[i] : i \in 1..Len(Out)} = {In[i] : i \in 1..Len(In)}
           /\ \A i, j \in 1..Len(Out) :
                i < j =>
                  \/ MipsSortKey(Out[i].Symbol) < MipsSortKey(Out[j].Symbol)
                  \/ /\ MipsSortKey(Out[i].Symbol) = MipsSortKey(Out[j].Symbol)
                     /\ PositionIn(In, Out[i].Symbol)
                          < PositionIn(In, Out[j].Symbol)]_vars

\* What holds of every outcome of that sort: the symbols that are not in
\* the GOT first, then those in the GOT by ascending GotIndex.
MipsDynSymGotOrder ==
  [][(DynSymFinalizeStep /\ Config.EMachineMips /\ ~Config.HasGnuHashTab) =>
       LET In == DynSymTab.Symbols
           Out == DynSymTab'.Symbols
       IN  /\ Len(Out) = Len(In)
           /\ {Out[i] : i \in 1..Len(Out)} = {In[i] : i \in 1..Len(In)}
           /\ \A i, j \in 1..Len(Out) :
                i < j =>
                  \/ MipsSortKey(Out[i].Symbol) < MipsSortKey(Out[j].Symbol)
                  \/ /\ ~isInGot(Out[i].Symbol)
                     /\ ~isInGot(Out[j].Symbol)]_vars

(***************************************************************************)
(* Properties of EhFrameSection::addSection                                *)
(***************************************************************************)
\* The pieces of input section sec up to its end marker, the empty record
\* that ends the section.
PiecesOfSection(sec) ==
  LET n == Len(EhInputSections[sec])
      ends == {i \in 1..n : EhInputSections[sec][i].Size = 4}
      last == IF ends = {} THEN n
              ELSE (CHOOSE i \in ends : \A j \in ends : i <= j) - 1
  IN  [i \in 1..last |-> <<sec, i>>]

\* The pieces of the sections added so far, in the order addSection met
\* them.
AddedPieces == Flatten([k \in 1..Len(EhSections) |-> PiecesOfSection(EhSections[k])])

\* What CIEs are told apart by: the bytes and the personality symbol.
CieKey(id) == <<PieceOf(id).Data, PieceOf(id).Target>>

\* The CIE pieces added so far, and of those the first of each key.
AddedCies == SelectSeq(AddedPieces, LAMBDA id : PieceOf(id).ID = 0)
FirstCies ==
  LET C == AddedCies
      first == {i \in 1..Len(C) : \A j \in 1..(i - 1) : CieKey(C[j]) # CieKey(C[i])}
  IN  [k \in 1..Cardinality(first) |->
         C[CHOOSE i \in first : Cardinality({j \in first : j <= i}) = k]]

\* The FDE pieces added so far, and the CIE piece each refers to in its
\* own section.
AddedFdes == SelectSeq(AddedPieces, LAMBDA id : PieceOf(id).ID # 0)
ReferencedCie(id) ==
  CHOOSE c \in {AddedCies[i] : i \in 1..Len(AddedCies)} :
    /\ c[1] = id[1]
    /\ PieceOf(c).InputOff = PieceOf(id).InputOff + 4 - PieceOf(id).ID

\* The first relocation of FDE id targets a live DefinedRegular symbol.
TargetsLiveFunction(id) ==
  /\ PieceOf(id).Target # 0
  /\ EhFunctions[PieceOf(id).Target].Defined
  /\ EhFunctions[PieceOf(id).Target].Live

\* C34: after any addSection calls none of which was fatal, Cies holds one
\* record for each pair of CIE bytes and personality, holding its first
\* piece, in the order the pairs first came; an FDE is among the FdePieces
\* of a record, once and of the record its section's CIE belongs to, when
\* its first relocation targets a live DefinedRegular symbol, and of none
\* otherwise; NumFdes counts the FDEs of the records.
C34_CiesUniqueFdesLive ==
  ehState # "FATAL" =>
    /\ [c \in 1..Len(Cies) |-> Cies[c].Piece] = FirstCies
    /\ \A i \in 1..Len(AddedFdes) :
         LET id == AddedFdes[i]
             at == {<<c, k>> \in (1..Len(Cies)) \X (1..6) :
                      k <= Len(Cies[c].FdePieces) /\ Cies[c].FdePieces[k] = id}
         IN  IF TargetsLiveFunction(id)
               THEN /\ Cardinality(at) = 1
                    /\ \A p \in at :
                         CieKey(Cies[p[1]].Piece) = CieKey(ReferencedCie(id))
               ELSE at = {}
    /\ \A c \in 1..Len(Cies) : \A k \in 1..Len(Cies[c].FdePieces) :
         Cies[c].FdePieces[k] \in {AddedFdes[i] : i \in 1..Len(AddedFdes)}
    /\ NumFdes = Len(Flatten([c \in 1..Len(Cies) |-> Cies[c].FdePieces]))

\* three sections added: the CIE of the first came again in the second and
\* behind another CIE in the third, two records hold five FDEs between
\* them, and a dead FDE is in neither
C34_Witness ==
  /\ ehState = "CREATED"
  /\ EhSections = <<1, 2, 3>>
  /\ Len(Cies) = 2
  /\ Len(Cies[1].FdePieces) = 4
  /\ Cies[1].FdePieces[4] = <<3, 4>>
  /\ NumFdes = 5

(***************************************************************************)
(* Properties of the RELATIVE count of .rel(a).dyn                         *)
(***************************************************************************)
\* The number of accumulated relocations of the RELATIVE type.
RelativeRelocs ==
  Cardinality({i \in 1..Len(Relocs) : Relocs[i].Type = "RelativeRel"})

\* The tags of the RELATIVE count.
RelCountTags == {DT.RELACOUNT, DT.RELCOUNT}

\* C35: after any sequence of addReloc calls the RELATIVE counter of the
\* section is the number of accumulated relocations of the RELATIVE type;
\* DT_RELCOUNT or DT_RELACOUNT, when .dynamic has it, carries that number,
\* as an entry and as written; and when the section sorts, the RELATIVE
\* entries of the written table are exactly its first that-many entries.
C35_RelativeCountMatches ==
  /\ NumRelativeRelocs = RelativeRelocs
  /\ \A i \in 1..Len(DynEntries) :
       DynEntries[i].Tag \in RelCountTags =>
         /\ DynEntries[i].Kind = "PlainInt"
         /\ DynEntries[i].Val = RelativeRelocs
  /\ \A i \in 1..Len(DynBuf) :
       DynBuf[i].d_tag \in RelCountTags =>
         DynBuf[i].d_un = <<"PlainInt", RelativeRelocs>>
  /\ (relaState = "WRITTEN" /\ RelaSort) =>
       /\ Len(RelaBuf) = Len(Relocs)
       /\ \A i \in 1..Len(RelaBuf) :
            (RelaBuf[i].r_type = "RelativeRel") <=> (i <= RelativeRelocs)

\* Both sections written, the table sorted: a RELATIVE relocation was added
\* after two others and one before them, and DT_RELACOUNT says two.
C35_Witness ==
  /\ relaState = "WRITTEN"
  /\ RelaSort
  /\ dynState = "WRITTEN"
  /\ Len(Relocs) = 4
  /\ Relocs[1].Type = "RelativeRel"
  /\ Relocs[2].Type = "GotRel"
  /\ Relocs[3].Type = "SymbolicRel"
  /\ Relocs[4].Type = "RelativeRel"
  /\ \E i \in 1..Len(DynBuf) :
       /\ DynBuf[i].d_tag = DT.RELACOUNT
       /\ DynBuf[i].d_un = <<"PlainInt", 2>>
  /\ RelaBuf[2].r_type = "RelativeRel"
  /\ RelaBuf[2].r_offset = <<Relocs[4].InputSec, 24>>

(***************************************************************************)
(* Properties of EhFrameHeader::getSize                                    *)
(***************************************************************************)
\* C37: the size .eh_frame_hdr reports is 12 plus 8 times the FDE count it
\* writes into its header, whatever the Pcs of the live FDEs are, several
\* live FDEs with one Pc included.
C37_HdrSizeIsWrittenCount ==
  ehHdrState = "WRITTEN" => EhHdrGetSize = 12 + 8 * EhHdrBuf.FdeCount

\* The size is that of the header and one table entry for every live FDE,
\* and the table has room for the entries written.
EhHdrSizeIsLiveCount ==
  ehHdrState = "WRITTEN" =>
    /\ NumFdes = Len(fdeLog)
    /\ EhHdrGetSize = 12 + 8 * Len(fdeLog)
    /\ EhHdrBuf.FdeCount = Cardinality({fdeLog[i].Pc : i \in 1..Len(fdeLog)})
    /\ EhHdrGetSize >= 12 + 8 * EhHdrBuf.FdeCount

(***************************************************************************)
(* Properties of DT_STRSZ                                                  *)
(***************************************************************************)
\* The DT_STRSZ values of the written .dynamic.
WrittenStrSz ==
  {DynBuf[i].d_un : i \in {j \in 1..Len(DynBuf) : DynBuf[j].d_tag = DT.STRSZ}}

\* C38: in a run whose finalize pass follows the dependency order, the
\* DT_STRSZ written in .dynamic is the size of .dynstr when it is written
\* and afterwards: no step that follows the finalize of .dynamic, not the
\* finalize of .gnu.version_d with the file and version names either, adds
\* a string to .dynstr.
C38_StrSzIsDynStrSize ==
  /\ [](dynState = "WRITTEN" => WrittenStrSz = {<<"PlainInt", DynStrTab.Size>>})
  /\ [][dynState # "CREATED" => DynStrTab' = DynStrTab]_vars

\* A written .dynamic of a link without soname and with two version
\* definitions: .gnu.version_d added the name of the output file and of
\* the versions behind the strings of the constructor and of two symbols,
\* and DT_STRSZ counts them.
C38_Witness ==
  /\ dynState = "WRITTEN"
  /\ verDefState = "FINALIZED"
  /\ DynInputs.SoName = <<>>
  /\ Len(DynSymTab.Symbols) = 2
  /\ Len(VerDefNameOffs) = 3
  /\ VerDefNameOffs[1] > addEntries(StringTableSection, DynInputs).tab.Size
  /\ DynStrTab.Size = VerDefNameOffs[3] + 3
  /\ <<"PlainInt", VerDefNameOffs[3] + 3>> \in WrittenStrSz

(***************************************************************************)
(* Properties of MipsGotSection::getPageEntryOffset                        *)
(***************************************************************************)
\* The slot of the call, counted from the first slot of the section.
PageSlot == PageRet.Offset \div Config.Wordsize - PageFirstIndex

\* (A + 0x8000) & ~0xffff of the address A asked about
PageOfAddress == getMipsPageAddrWide(AddWide(PageArgs.Addr, PageArgs.Off))

\* C39: for an output section of a page map, at Addr and of Size, and an
\* address A with Addr <= A < Addr + Size, the page entry
\* getPageEntryOffset names is one of the getMipsPageCount(Size) slots
\* reserved for the section, and the word written into it is the page
\* address (A + 0x8000) & ~0xffff.
C39_PageEntryHoldsPageOfAddress ==
  PageRet.Called =>
    /\ PageSlot \in 0..(PageRet.PageCount - 1)
    /\ PageRet.Written = PageOfAddress

\* The slot is always one of those reserved, and it holds the page of the
\* address whenever that page is fewer than 0xffff pages behind the first
\* page of the section, as in every section of up to 0xfffe0001 bytes.
PageEntryOfSmallerSections ==
  PageRet.Called =>
    /\ PageSlot \in 0..(PageRet.PageCount - 1)
    /\ ~LessWide(<<65534, 1>>, PageArgs.Size) =>
         PageRet.Written = PageOfAddress
    /\ LessWide(SubWide(PageOfAddress, getMipsPageAddrWide(PageArgs.Addr)),
                <<65535, 0>>) =>
         PageRet.Written = PageOfAddress

\* On values below 2^31 the operators on <<page, offset>> are those on
\* integers.
WideAgrees ==
  /\ \A x \in {PageArgs.Addr, PageArgs.Size} :
       x[1] < 32767 =>
         /\ getMipsPageAddrWide(x)[1] * 65536
              = getMipsPageAddr(x[1] * 65536 + x[2])
         /\ getMipsPageCountWide(x) = getMipsPageCount(x[1] * 65536 + x[2])
         /\ DivBy0xffff(x) = (x[1] * 65536 + x[2]) \div 65535

(***************************************************************************)
(* Properties of the offsets of the __cap_relocs records                   *)
(***************************************************************************)
\* The dynamic relocations registered for __cap_relocs.
CapDynRelocs == {r \in 1..Len(Relocs) : Relocs[r].InputSec = "CapRelocs"}

\* C40: the n-th record inserted, counted from 0 over all inputs, has its
\* dynamic relocations at the offsets 40n, for the location, and 40n + 8,
\* for the target, both inside the size of the section; a record that was
\* rejected, by the validation, for an undefined or unsupported target or
\* as a duplicate, has no dynamic relocation and takes no offset, so that
\* the records and the relocations are those of the records inserted and
\* the number of records written is size / 40.
C40_RecordOffsets ==
  capState # "ABORTED" =>
    /\ \A k \in 1..Len(RelocsMap) :
         LET n == k - 1
             Loc == CapDynRelocsAt(40 * n)
             Tgt == CapDynRelocsAt(40 * n + 8)
         IN  /\ Cardinality(Loc) = IF RelocsMap[k].Key.NeedsDynReloc
                                     THEN 1 ELSE 0
             /\ Cardinality(Tgt) = IF RelocsMap[k].Val.NeedsDynReloc
                                     THEN 1 ELSE 0
             /\ \A r \in Loc : Relocs[r].Sym = RelocsMap[k].Key.BaseSym
             /\ \A r \in Tgt : Relocs[r].Sym = RelocsMap[k].Val.Target
             /\ 40 * n + 8 < CapGetSize(RelocsMap)
    /\ \A r \in CapDynRelocs :
         /\ Relocs[r].OffsetInSec < CapGetSize(RelocsMap)
         /\ Relocs[r].OffsetInSec % 40 \in {0, 8}
    /\ capState = "WRITTEN" => Len(CapBuf) = CapGetSize(RelocsMap) \div 40

\* A PIC link whose __cap_relocs was written with two records: between
\* them processSection rejected a duplicate, and other records were
\* rejected too; the second record has its relocations at 40 and 48.
C40_Witness ==
  /\ capState = "WRITTEN"
  /\ Config.Pic
  /\ Len(RelocsMap) = 2
  /\ Len(CapBuf) = 2
  /\ "already added" \in {CapErrors[i] : i \in 1..Len(CapErrors)}
  /\ Len(CapErrors) >= 2
  /\ Cardinality(CapDynRelocs) = 4
  /\ CapDynRelocsAt(40) # {}
  /\ CapDynRelocsAt(48) # {}

====
